---- MODULE Spec2Model ----
(***************************************************************************)
(* A model of the AssistSupport hybrid search service (src/search-api):    *)
(* score fusion, post-adjustment, deduplication, the feedback loop and the *)
(* request pipeline over the article store.                                *)
(*                                                                         *)
(* Python floats are modelled as exact rationals <<n, d>> (d > 0, reduced  *)
(* to lowest terms), so that sums, ratios and ties are decided exactly.    *)
(***************************************************************************)
EXTENDS Integers, Sequences, FiniteSets

VARIABLES
    bm25_results,       \* list of <<article_id, score>> of the keyword retriever
    vector_results,     \* list of <<article_id, score>> of the vector retriever
    fused,              \* the candidate list the pipeline stages rewrite
    fusion_strategy,    \* the strategy that produced fused
    intent,             \* detected intent of the query
    pc,                 \* position of the computation in the current specification
    category,           \* kb_articles.category, per article id
    source_document_id, \* kb_articles.source_document_id, per article id
    quality_score,      \* kb_articles.quality_score, per article id
    search_feedback,    \* the search_feedback table: entries per article_id and rating
    updated,            \* what the last compute_quality_scores run returned
    runs_since_feedback,\* aggregator runs since the feedback table last changed
    stage_input,        \* the list a stage was given (kept to state its contract)
    boost_once,         \* the list after the first category boost
    is_active,          \* kb_articles.is_active, per article id
    vector_search_enabled, \* HybridSearchEngine.vector_search_enabled
    intent_conf,        \* confidence of the detected intent
    limit,              \* number of results the request asks for
    results,            \* the result list of the response
    query_log,          \* number of rows of the query_log table
    fetch_is_active,    \* is_active as it was when the response rows were fetched
    top_k,              \* the top_k of the request body
    store_error,        \* the retrievers whose store call failed in this request
    query_id,           \* the query_id of the response
    deadline_expired,   \* the deadline of the request passed during a pending call
    vector_queried,     \* _vector_search sent its query to the store
    detect_input,       \* what the classifier sees of the query
    MODEL_LOADED,       \* intent_detection._MODEL_LOADED
    MODEL,              \* intent_detection._MODEL
    thread_pc,          \* position of each request thread in IntentDetector.detect
    thread_model,       \* what _load_model returned to each thread
    thread_out,         \* what detect returned to each thread
    request,            \* the HTTP request being served
    http_status,        \* status code of the HTTP response
    http_error,         \* error message of the HTTP response
    engine_calls,       \* calls the endpoints made to the engine
    engine,             \* search_api._engine
    engines_built,      \* HybridSearchEngine objects constructed so far
    cur,                \* per engine: the query whose result set self.cur holds
    worker_pc,          \* position of each request thread of the server
    worker_engine,      \* what _get_engine returned to each thread
    worker_rows         \* per thread: what its fetchall calls returned

vars == <<bm25_results, vector_results, fused, fusion_strategy, intent, pc,
          category, source_document_id, quality_score, search_feedback, updated,
          runs_since_feedback, stage_input, boost_once, is_active,
          vector_search_enabled, intent_conf, limit, results, query_log,
          fetch_is_active, top_k, store_error, query_id, deadline_expired,
          vector_queried, detect_input,
          MODEL_LOADED, MODEL, thread_pc, thread_model, thread_out, request,
          http_status, http_error, engine_calls, engine, engines_built, cur,
          worker_pc, worker_engine, worker_rows>>
request_vars == <<bm25_results, vector_results, fusion_strategy>>
feedback_vars == <<quality_score, search_feedback, updated, runs_since_feedback>>
store_vars == <<category, source_document_id, feedback_vars>>
search_vars == <<is_active, vector_search_enabled, intent_conf, limit, results,
                 query_log, fetch_is_active, top_k, store_error, query_id,
                 deadline_expired, vector_queried>>
intent_vars == <<detect_input, MODEL_LOADED, MODEL, thread_pc, thread_model,
                 thread_out>>
api_vars == <<request, http_status, http_error, engine_calls>>
server_vars == <<engine, engines_built, cur, worker_pc, worker_engine, worker_rows>>

(***************************************************************************)
(* Bounds of the model.                                                    *)
(***************************************************************************)
MaxLen == 2             \* longest retriever result list drawn as an input
MaxCandidates == 3      \* longest candidate list drawn as the input of a stage
MaxFeedback == 6        \* most entries submitted to the search_feedback table
MaxRuns == 2            \* most aggregator runs in a row without new feedback
MaxCount == 6           \* most entries of one rating in a drawn feedback table

(***************************************************************************)
(* Exact rational arithmetic.                                              *)
(***************************************************************************)
Abs(x) == IF x < 0 THEN -x ELSE x

RECURSIVE GCD(_, _)
GCD(a, b) == IF b = 0 THEN a ELSE GCD(b, a % b)

Rat(n, d) ==
    LET g == GCD(Abs(n), Abs(d))
        s == IF d < 0 THEN -1 ELSE 1
    IN  <<(s * n) \div g, (s * d) \div g>>

RInt(n) == <<n, 1>>
RAdd(a, b) ==
    LET g == GCD(a[2], b[2])
    IN  Rat(a[1] * (b[2] \div g) + b[1] * (a[2] \div g), a[2] * (b[2] \div g))
RMul(a, b) ==
    LET x == Rat(a[1], b[2])
        y == Rat(b[1], a[2])
    IN  Rat(x[1] * y[1], x[2] * y[2])
RDiv(a, b) == RMul(a, Rat(b[2], b[1]))
RLess(a, b) ==
    LET g == GCD(a[2], b[2])
    IN  a[1] * (b[2] \div g) < b[1] * (a[2] \div g)
RLeq(a, b) == ~RLess(b, a)
RMin(a, b) == IF RLess(b, a) THEN b ELSE a
RMax(a, b) == IF RLess(a, b) THEN b ELSE a

RECURSIVE RMaxOf(_)
RMaxOf(s) ==
    IF Len(s) = 1 THEN s[1] ELSE RMax(s[1], RMaxOf(Tail(s)))

(***************************************************************************)
(* Lists of <<article_id, score>> pairs.                                   *)
(***************************************************************************)
Ids(s) == {s[i][1] : i \in 1..Len(s)}
Scores(s) == [i \in 1..Len(s) |-> s[i][2]]
UniqueIds(s) == \A i, j \in 1..Len(s) : s[i][1] = s[j][1] => i = j
NonIncreasing(s) == \A i \in 1..(Len(s) - 1) : ~RLess(s[i][2], s[i + 1][2])

\* Python's sorted(items, key=score, reverse=True): descending by score and
\* stable, so items of equal score keep their relative order.
RECURSIVE InsertDesc(_, _)
InsertDesc(s, x) ==
    IF s = <<>> THEN <<x>>
    ELSE IF RLess(s[1][2], x[2]) THEN <<x>> \o s
    ELSE <<s[1]>> \o InsertDesc(Tail(s), x)

RECURSIVE SortedDesc(_)
SortedDesc(s) ==
    IF s = <<>> THEN <<>>
    ELSE InsertDesc(SortedDesc(SubSeq(s, 1, Len(s) - 1)), s[Len(s)])

\* A dict built by a comprehension over a list: the last pair of a key wins.
DictGet(s, id, default) ==
    IF id \in Ids(s)
    THEN LET i == CHOOSE i \in 1..Len(s) :
                    /\ s[i][1] = id
                    /\ \A j \in (i + 1)..Len(s) : s[j][1] # id
         IN  s[i][2]
    ELSE default

\* The keys of a dict in insertion order: first occurrences, in list order.
RECURSIVE FirstSeen(_, _)
FirstSeen(s, seen) ==
    IF s = <<>> THEN <<>>
    ELSE IF s[1] \in seen THEN FirstSeen(Tail(s), seen)
    ELSE <<s[1]>> \o FirstSeen(Tail(s), seen \cup {s[1]})

IdList(s) == [i \in 1..Len(s) |-> s[i][1]]

(***************************************************************************)
(* score_fusion.py                                                         *)
(***************************************************************************)
RRF_K == 60

\* The sum of 1/(k + rank) over the positions of id in one list.
RECURSIVE RankSum(_, _, _)
RankSum(s, id, rank) ==
    IF s = <<>> THEN RInt(0)
    ELSE RAdd(IF s[1][1] = id THEN Rat(1, RRF_K + rank) ELSE RInt(0),
              RankSum(Tail(s), id, rank + 1))

\* Mutant: the dict items are returned without the final sort.
reciprocal_rank_fusion_unsorted(bm25, vector) ==
    LET keys == FirstSeen(IdList(bm25) \o IdList(vector), {})
    IN  [i \in 1..Len(keys) |->
            <<keys[i], RAdd(RankSum(bm25, keys[i], 1),
                            RankSum(vector, keys[i], 1))>>]

reciprocal_rank_fusion(bm25, vector) ==
    LET keys == FirstSeen(IdList(bm25) \o IdList(vector), {})
        items == [i \in 1..Len(keys) |->
                    <<keys[i], RAdd(RankSum(bm25, keys[i], 1),
                                    RankSum(vector, keys[i], 1))>>]
    IN  SortedDesc(items)

BM25_FLOOR == Rat(1, 100)

bm25_dict(bm25) ==
    IF bm25 = <<>> THEN <<>>
    ELSE LET bm25_max == RMaxOf(Scores(bm25))
         IN  [i \in 1..Len(bm25) |->
                <<bm25[i][1],
                  RMin(RInt(1), RDiv(bm25[i][2], RMax(bm25_max, BM25_FLOOR)))>>]

vector_dict(vector) ==
    [i \in 1..Len(vector) |->
        <<vector[i][1], RMin(RInt(1), RMax(RInt(0), vector[i][2]))>>]

\* all_ids is a Python set of strings: its iteration order is an order of
\* the ids that the caller cannot choose (set_order lists every id once).
SetIteration(ids, set_order) ==
    SelectSeq(set_order, LAMBDA id : id \in ids)

\* Mutant: all_ids is taken from the vector side only.
weighted_combination_vector_ids(bm25, vector, bm25_weight, vector_weight, set_order) ==
    LET bd == bm25_dict(bm25)
        vd == vector_dict(vector)
        all_ids == SetIteration(Ids(vd), set_order)
        combined == [i \in 1..Len(all_ids) |->
                        <<all_ids[i],
                          RAdd(RMul(bm25_weight, DictGet(bd, all_ids[i], RInt(0))),
                               RMul(vector_weight, DictGet(vd, all_ids[i], RInt(0))))>>]
    IN  SortedDesc(combined)

\* Mutant: all_ids is taken from the keyword side only.
weighted_combination_bm25_ids(bm25, vector, bm25_weight, vector_weight, set_order) ==
    LET bd == bm25_dict(bm25)
        vd == vector_dict(vector)
        all_ids == SetIteration(Ids(bd), set_order)
        combined == [i \in 1..Len(all_ids) |->
                        <<all_ids[i],
                          RAdd(RMul(bm25_weight, DictGet(bd, all_ids[i], RInt(0))),
                               RMul(vector_weight, DictGet(vd, all_ids[i], RInt(0))))>>]
    IN  SortedDesc(combined)

weighted_combination(bm25, vector, bm25_weight, vector_weight, set_order) ==
    LET bd == bm25_dict(bm25)
        vd == vector_dict(vector)
        all_ids == SetIteration(Ids(bd) \cup Ids(vd), set_order)
        combined == [i \in 1..Len(all_ids) |->
                        <<all_ids[i],
                          RAdd(RMul(bm25_weight, DictGet(bd, all_ids[i], RInt(0))),
                               RMul(vector_weight, DictGet(vd, all_ids[i], RInt(0))))>>]
    IN  SortedDesc(combined)

DEFAULT_BM25_WEIGHT == Rat(3, 10)
DEFAULT_VECTOR_WEIGHT == Rat(6, 10)

\* Mutant: an intent missing from the table falls through to the default
\* weights of weighted_combination.
AdaptiveWeights_default_fallback(query_type) ==
    CASE query_type = "policy"    -> <<Rat(35, 100), Rat(65, 100)>>
      [] query_type = "procedure" -> <<Rat(40, 100), Rat(60, 100)>>
      [] query_type = "reference" -> <<Rat(20, 100), Rat(80, 100)>>
      [] query_type = "unknown"   -> <<Rat(30, 100), Rat(70, 100)>>
      [] OTHER                    -> <<DEFAULT_BM25_WEIGHT, DEFAULT_VECTOR_WEIGHT>>

AdaptiveWeights(query_type) ==
    CASE query_type = "policy"    -> <<Rat(35, 100), Rat(65, 100)>>
      [] query_type = "procedure" -> <<Rat(40, 100), Rat(60, 100)>>
      [] query_type = "reference" -> <<Rat(20, 100), Rat(80, 100)>>
      [] OTHER                    -> <<Rat(30, 100), Rat(70, 100)>>

adaptive_fusion(bm25, vector, query_type, set_order) ==
    LET w == AdaptiveWeights(query_type)
    IN  weighted_combination(bm25, vector, w[1], w[2], set_order)

(***************************************************************************)
(* hybrid_search.py: the in-memory stages over the fused list.  The rows   *)
(* a stage reads from kb_articles are passed as functions of the id.       *)
(***************************************************************************)
NULL == "null"
TOP_N == 30
Take(s, n) == SubSeq(s, 1, IF n < Len(s) THEN n ELSE Len(s))
Reverse(s) == [i \in 1..Len(s) |-> s[Len(s) + 1 - i]]

\* s[:n] of Python: a negative n drops the last -n entries.
PySlice(s, n) ==
    IF n >= 0 THEN Take(s, n)
    ELSE SubSeq(s, 1, IF Len(s) + n > 0 THEN Len(s) + n ELSE 0)

RECURSIVE InsertAsc(_, _)
InsertAsc(s, x) ==
    IF s = <<>> THEN <<x>>
    ELSE IF RLess(x[2], s[1][2]) THEN <<x>> \o s
    ELSE <<s[1]>> \o InsertAsc(Tail(s), x)

RECURSIVE SortedAsc(_)
SortedAsc(s) ==
    IF s = <<>> THEN <<>>
    ELSE InsertAsc(SortedAsc(SubSeq(s, 1, Len(s) - 1)), s[Len(s)])

intent_to_category(i) ==
    CASE i = "policy"    -> "POLICY"
      [] i = "procedure" -> "PROCEDURE"
      [] i = "reference" -> "REFERENCE"
      [] OTHER           -> NULL

CATEGORY_BOOST == Rat(120, 100)

\* Mutant: the categories of all candidates are looked up, not of the
\* first 30 only.
Boosted_every_candidate(fused_results, target_category, category_of) ==
    [i \in 1..Len(fused_results) |->
        <<fused_results[i][1],
          IF category_of[fused_results[i][1]] = target_category
          THEN RMul(fused_results[i][2], CATEGORY_BOOST)
          ELSE fused_results[i][2]>>]

Boosted(fused_results, target_category, category_of) ==
    LET article_ids == Ids(Take(fused_results, TOP_N))
    IN  [i \in 1..Len(fused_results) |->
            LET article_id == fused_results[i][1]
                cat == IF article_id \in article_ids
                       THEN category_of[article_id] ELSE ""
            IN  <<article_id,
                  IF cat = target_category
                  THEN RMul(fused_results[i][2], CATEGORY_BOOST)
                  ELSE fused_results[i][2]>>]

\* Mutant: descending order obtained as sorted(...)[::-1], which reverses
\* the order of equal scores.
apply_category_boost_reversed(fused_results, intent_arg, category_of) ==
    IF fused_results = <<>> \/ intent_to_category(intent_arg) = NULL
    THEN fused_results
    ELSE Reverse(SortedAsc(Boosted(fused_results, intent_to_category(intent_arg),
                                   category_of)))

apply_category_boost(fused_results, intent_arg, category_of) ==
    IF fused_results = <<>> \/ intent_to_category(intent_arg) = NULL
    THEN fused_results
    ELSE SortedDesc(Boosted(fused_results, intent_to_category(intent_arg),
                            category_of))

\* get_quality_scores: a NULL (or zero) quality_score reads as 1.0.
apply_quality_scores(fused_results, quality_of) ==
    IF fused_results = <<>> THEN fused_results
    ELSE LET article_ids == Ids(Take(fused_results, TOP_N))
             adjusted == [i \in 1..Len(fused_results) |->
                LET article_id == fused_results[i][1]
                    qs == IF article_id \in article_ids
                             /\ quality_of[article_id] # NULL
                             /\ quality_of[article_id] # RInt(0)
                          THEN quality_of[article_id] ELSE RInt(1)
                IN  <<article_id, RMul(fused_results[i][2], qs)>>]
         IN  SortedDesc(adjusted)

\* The walk of _deduplicate_results; every candidate id has a row (doc_map).
RECURSIVE DedupWalk(_, _, _)
DedupWalk(s, seen_docs, doc_of) ==
    IF s = <<>> THEN <<>>
    ELSE LET doc_id == doc_of[s[1][1]]
         IN  IF doc_id = NULL \/ doc_id \notin seen_docs
             THEN <<s[1]>> \o DedupWalk(Tail(s),
                        IF doc_id # NULL THEN seen_docs \cup {doc_id} ELSE seen_docs,
                        doc_of)
             ELSE DedupWalk(Tail(s), seen_docs, doc_of)

\* Mutant: seen_docs also records the absent (NULL) source document.
RECURSIVE DedupWalkNullSeen(_, _, _)
DedupWalkNullSeen(s, seen_docs, doc_of) ==
    IF s = <<>> THEN <<>>
    ELSE LET doc_id == doc_of[s[1][1]]
         IN  IF doc_id \notin seen_docs
             THEN <<s[1]>> \o DedupWalkNullSeen(Tail(s), seen_docs \cup {doc_id}, doc_of)
             ELSE DedupWalkNullSeen(Tail(s), seen_docs, doc_of)

deduplicate_results_null_seen(fused_results, doc_of) ==
    DedupWalkNullSeen(fused_results, {}, doc_of)

deduplicate_results(fused_results, doc_of) ==
    DedupWalk(fused_results, {}, doc_of)

(***************************************************************************)
(* feedback_loop.py                                                        *)
(***************************************************************************)
MIN_FEEDBACK == 3
MAX_WEIGHT == Rat(3, 10)
WEIGHT_PER_FEEDBACK == Rat(2, 100)
Ratings == {"helpful", "not_helpful", "incorrect"}

RATING_VALUES(rating) ==
    CASE rating = "helpful"     -> Rat(1, 1)
      [] rating = "not_helpful" -> Rat(0, 1)
      [] rating = "incorrect"   -> Rat(-1, 2)

\* article_feedback[aid]["total"]: the entries of one article_id.
FeedbackTotal(stats) ==
    stats["helpful"] + stats["not_helpful"] + stats["incorrect"]

\* Mutant: an incorrect rating weighs -1.0 instead of -0.5.
helpful_ratio_incorrect_minus_one(stats) ==
    LET score_sum == RInt(stats["helpful"] - stats["incorrect"])
    IN  RMax(RInt(0), RDiv(score_sum, RInt(FeedbackTotal(stats))))

helpful_ratio(stats) ==
    LET score_sum ==
            RAdd(RAdd(RMul(RInt(stats["helpful"]), RATING_VALUES("helpful")),
                      RMul(RInt(stats["not_helpful"]), RATING_VALUES("not_helpful"))),
                 RMul(RInt(stats["incorrect"]), RATING_VALUES("incorrect")))
    IN  RMax(RInt(0), RDiv(score_sum, RInt(FeedbackTotal(stats))))

\* Mutant: the weight grows with the feedback without the MAX_WEIGHT cap.
article_quality_uncapped_weight(stats) ==
    LET total == FeedbackTotal(stats)
        weight == RMul(RInt(total), WEIGHT_PER_FEEDBACK)
        quality == RAdd(RInt(1), RMul(RAdd(helpful_ratio(stats), Rat(-1, 2)), weight))
    IN  RMax(Rat(1, 2), RMin(Rat(3, 2), quality))

\* The value written for an article whose stats reach MIN_FEEDBACK.
article_quality(stats) ==
    LET total == FeedbackTotal(stats)
        weight == RMin(MAX_WEIGHT, RMul(RInt(total), WEIGHT_PER_FEEDBACK))
        quality == RAdd(RInt(1), RMul(RAdd(helpful_ratio(stats), Rat(-1, 2)), weight))
    IN  RMax(Rat(1, 2), RMin(Rat(3, 2), quality))

\* The article_id values the aggregation query groups: non-null, with at
\* least one entry.
FeedbackGroups(feedback) ==
    {aid \in DOMAIN feedback : aid # NULL /\ FeedbackTotal(feedback[aid]) > 0}

\* Mutant: the adjustment is added to the stored score instead of to 1.0.
compute_quality_scores_incremental(feedback, quality) ==
    [a \in DOMAIN quality |->
        IF a \in FeedbackGroups(feedback) /\ FeedbackTotal(feedback[a]) >= MIN_FEEDBACK
        THEN RMax(Rat(1, 2), RMin(Rat(3, 2),
                RAdd(quality[a], RAdd(article_quality(feedback[a]), RInt(-1)))))
        ELSE quality[a]]

\* Mutant: the UPDATE is given helpful_ratio instead of quality_score.
compute_quality_scores_writes_ratio(feedback, quality) ==
    [a \in DOMAIN quality |->
        IF a \in FeedbackGroups(feedback) /\ FeedbackTotal(feedback[a]) >= MIN_FEEDBACK
        THEN helpful_ratio(feedback[a])
        ELSE quality[a]]

\* Mutant: the MIN_FEEDBACK test is missing; every grouped id is updated.
compute_quality_scores_no_minimum(feedback, quality) ==
    [a \in DOMAIN quality |->
        IF a \in FeedbackGroups(feedback)
        THEN article_quality(feedback[a])
        ELSE quality[a]]

\* The kb_articles.quality_score column after compute_quality_scores: the
\* UPDATE of an article_id without a row changes nothing.
compute_quality_scores(feedback, quality) ==
    [a \in DOMAIN quality |->
        IF a \in FeedbackGroups(feedback) /\ FeedbackTotal(feedback[a]) >= MIN_FEEDBACK
        THEN article_quality(feedback[a])
        ELSE quality[a]]

\* Mutant: the UPDATE also sets is_active = true.
update_quality_score_reactivates(articles, quality) ==
    [a \in DOMAIN articles |->
        [articles[a] EXCEPT !.quality_score = quality[a], !.is_active = TRUE]]

\* The rows of kb_articles after the UPDATE statements of a run:
\* UPDATE kb_articles SET quality_score = %s WHERE id = %s.
update_quality_score(articles, quality) ==
    [a \in DOMAIN articles |-> [articles[a] EXCEPT !.quality_score = quality[a]]]

\* The value compute_quality_scores returns: one per UPDATE issued.
updated_count(feedback) ==
    Cardinality({aid \in FeedbackGroups(feedback) :
                    FeedbackTotal(feedback[aid]) >= MIN_FEEDBACK})

(***************************************************************************)
(* Inputs of the fusion functions.                                         *)
(***************************************************************************)
ArticleIds == {"a1", "a2", "a3"}
Bm25Scores == {Rat(-1, 1), Rat(1, 200), Rat(2, 1)}
VectorScores == {Rat(-1, 2), Rat(1, 2), Rat(3, 2)}
QueryTypes == {"policy", "procedure", "reference", "unknown", "smalltalk"}

\* What a retriever returns: rows of distinct articles, best score first
\* (ORDER BY ... DESC in both queries).
ResultLists(scores) ==
    {s \in UNION {[1..n -> ArticleIds \X scores] : n \in 0..MaxLen} :
        UniqueIds(s) /\ NonIncreasing(s)}

SeqOrders(S) ==
    {s \in [1..Cardinality(S) -> S] : \A i, j \in 1..Cardinality(S) : s[i] = s[j] => i = j}

(***************************************************************************)
(* The state of the parts a specification does not exercise.              *)
(***************************************************************************)
\* article_id values of feedback entries: two articles, an id that no row of
\* kb_articles has, and no article_id at all.
FeedbackArticleIds == {"a1", "a2", "a0", NULL}
NoEntries == [r \in Ratings |-> 0]
DefaultQuality == [a \in ArticleIds |-> RInt(1)]

NoFeedback ==
    /\ quality_score = DefaultQuality
    /\ search_feedback = [aid \in FeedbackArticleIds |-> NoEntries]
    /\ updated = 0
    /\ runs_since_feedback = 0
NoStore ==
    /\ category = [a \in ArticleIds |-> "OTHER"]
    /\ source_document_id = [a \in ArticleIds |-> NULL]
    /\ NoFeedback
NoRequest ==
    /\ bm25_results = <<>>
    /\ vector_results = <<>>
    /\ fusion_strategy = "none"
    /\ fused = <<>>
    /\ intent = "unknown"
NoStage ==
    /\ stage_input = <<>>
    /\ boost_once = <<>>
NoSearch ==
    /\ is_active = [a \in ArticleIds |-> TRUE]
    /\ vector_search_enabled = TRUE
    /\ intent_conf = RInt(0)
    /\ limit = 10
    /\ results = <<>>
    /\ query_log = 0
    /\ fetch_is_active = [a \in ArticleIds |-> TRUE]
    /\ top_k = 10
    /\ store_error = {}
    /\ query_id = <<>>
    /\ deadline_expired = FALSE
    /\ vector_queried = FALSE
Threads == {"t1", "t2"}
NoIntent ==
    /\ detect_input = <<>>
    /\ MODEL_LOADED = FALSE
    /\ MODEL = "None"
    /\ thread_pc = [t \in Threads |-> "idle"]
    /\ thread_model = [t \in Threads |-> "None"]
    /\ thread_out = [t \in Threads |-> <<>>]
NoApi ==
    /\ request = <<>>
    /\ http_status = 0
    /\ http_error = ""
    /\ engine_calls = 0
NoServer ==
    /\ engine = <<>>
    /\ engines_built = 0
    /\ cur = <<>>
    /\ worker_pc = [t \in Threads |-> "idle"]
    /\ worker_engine = [t \in Threads |-> <<>>]
    /\ worker_rows = [t \in Threads |-> <<>>]

(***************************************************************************)
(* Specification of the fusion functions: inputs are drawn, one strategy   *)
(* is applied.                                                             *)
(***************************************************************************)
FusionInit ==
    /\ bm25_results \in ResultLists(Bm25Scores)
    /\ vector_results \in ResultLists(VectorScores)
    /\ fused = <<>>
    /\ fusion_strategy = "none"
    /\ intent = "unknown"
    /\ pc = "input"
    /\ NoStore
    /\ NoStage
    /\ NoIntent
    /\ NoApi
    /\ NoServer
    /\ NoSearch

FuseRRF ==
    /\ pc = "input"
    /\ fused' = reciprocal_rank_fusion(bm25_results, vector_results)
    /\ fusion_strategy' = "rrf"
    /\ pc' = "fused"
    /\ UNCHANGED <<server_vars, intent_vars, api_vars, search_vars, bm25_results, vector_results, intent, store_vars, stage_input, boost_once>>

FuseWeighted ==
    /\ pc = "input"
    /\ \E set_order \in SeqOrders(ArticleIds) :
          fused' = weighted_combination(bm25_results, vector_results,
                        DEFAULT_BM25_WEIGHT, DEFAULT_VECTOR_WEIGHT, set_order)
    /\ fusion_strategy' = "weighted"
    /\ pc' = "fused"
    /\ UNCHANGED <<server_vars, intent_vars, api_vars, search_vars, bm25_results, vector_results, intent, store_vars, stage_input, boost_once>>

FuseAdaptive ==
    /\ pc = "input"
    /\ \E query_type \in QueryTypes, set_order \in SeqOrders(ArticleIds) :
          /\ intent' = query_type
          /\ fused' = adaptive_fusion(bm25_results, vector_results, query_type, set_order)
    /\ fusion_strategy' = "adaptive"
    /\ pc' = "fused"
    /\ UNCHANGED <<server_vars, intent_vars, api_vars, search_vars, bm25_results, vector_results, store_vars, stage_input, boost_once>>

FusionNext == FuseRRF \/ FuseWeighted \/ FuseAdaptive

SpecFusion == FusionInit /\ [][FusionNext]_vars

(***************************************************************************)
(* Specifications of the post-adjustment and deduplication stages: a       *)
(* candidate list and the rows of the store are drawn, the stage is run.   *)
(***************************************************************************)
CandidateScores == {Rat(0, 1), Rat(4, 5), Rat(1, 1)}
Categories == {"POLICY", "PROCEDURE", "OTHER"}
SourceDocuments == {"d1", "d2"}
Intents == {"policy", "procedure", "reference", "unknown"}

\* What a stage is given: distinct ids, best score first.
CandidateLists ==
    {s \in UNION {[1..n -> ArticleIds \X CandidateScores] : n \in 0..MaxCandidates} :
        UniqueIds(s) /\ NonIncreasing(s)}

BoostInit ==
    /\ fused \in CandidateLists
    /\ category \in [ArticleIds -> Categories]
    /\ intent \in Intents
    /\ source_document_id = [a \in ArticleIds |-> NULL]
    /\ NoFeedback
    /\ bm25_results = <<>>
    /\ vector_results = <<>>
    /\ fusion_strategy = "none"
    /\ pc = "input"
    /\ NoStage
    /\ NoIntent
    /\ NoApi
    /\ NoServer
    /\ NoSearch

\* _apply_category_boost run on the list, and once more on its own output.
ApplyCategoryBoost ==
    /\ pc \in {"input", "boosted1"}
    /\ fused' = apply_category_boost(fused, intent, category)
    /\ stage_input' = IF pc = "input" THEN fused ELSE stage_input
    /\ boost_once' = IF pc = "input" THEN fused' ELSE boost_once
    /\ pc' = IF pc = "input" THEN "boosted1" ELSE "boosted2"
    /\ UNCHANGED <<server_vars, intent_vars, api_vars, search_vars, request_vars, intent, store_vars>>

SpecBoost == BoostInit /\ [][ApplyCategoryBoost]_vars

DedupInit ==
    /\ fused \in CandidateLists
    /\ source_document_id \in [ArticleIds -> SourceDocuments \cup {NULL}]
    /\ category = [a \in ArticleIds |-> "OTHER"]
    /\ NoFeedback
    /\ intent = "unknown"
    /\ bm25_results = <<>>
    /\ vector_results = <<>>
    /\ fusion_strategy = "none"
    /\ pc = "input"
    /\ NoStage
    /\ NoIntent
    /\ NoApi
    /\ NoServer
    /\ NoSearch

Deduplicate ==
    /\ pc = "input"
    /\ fused' = deduplicate_results(fused, source_document_id)
    /\ stage_input' = fused
    /\ pc' = "deduplicated"
    /\ UNCHANGED <<server_vars, intent_vars, api_vars, search_vars, request_vars, intent, store_vars, boost_once>>

SpecDedup == DedupInit /\ [][Deduplicate]_vars

(***************************************************************************)
(* Specification of the feedback loop: feedback submissions interleaved    *)
(* with Feedback Aggregator runs, from an empty table and default scores.  *)
(***************************************************************************)
TotalEntries(feedback) ==
    LET RECURSIVE Sum(_)
        Sum(S) == IF S = {} THEN 0
                  ELSE LET aid == CHOOSE x \in S : TRUE
                       IN  FeedbackTotal(feedback[aid]) + Sum(S \ {aid})
    IN  Sum(DOMAIN feedback)

FeedbackInit ==
    /\ NoFeedback
    /\ category = [a \in ArticleIds |-> "OTHER"]
    /\ source_document_id = [a \in ArticleIds |-> NULL]
    /\ NoRequest
    /\ NoStage
    /\ NoIntent
    /\ NoApi
    /\ NoServer
    /\ NoSearch
    /\ pc = "idle"

\* POST /feedback with a valid rating: _log_feedback inserts one entry.
SubmitFeedback ==
    /\ TotalEntries(search_feedback) < MaxFeedback
    /\ \E article_id \in FeedbackArticleIds, rating \in Ratings :
          search_feedback' = [search_feedback EXCEPT ![article_id][rating] = @ + 1]
    /\ runs_since_feedback' = 0
    /\ UNCHANGED <<server_vars, intent_vars, api_vars, search_vars, request_vars, fused, intent, pc, category, source_document_id,
                   quality_score, updated, stage_input, boost_once>>

\* The rows of the kb_articles table.
kb_articles ==
    [a \in DOMAIN quality_score |->
        [category           |-> category[a],
         source_document_id |-> source_document_id[a],
         is_active          |-> is_active[a],
         quality_score      |-> quality_score[a]]]

\* One run of compute_quality_scores (a single-writer batch).
RunAggregator ==
    /\ runs_since_feedback < MaxRuns
    /\ LET rows == update_quality_score(kb_articles,
                       compute_quality_scores(search_feedback, quality_score))
       IN  /\ quality_score' = [a \in DOMAIN rows |-> rows[a].quality_score]
           /\ category' = [a \in DOMAIN rows |-> rows[a].category]
           /\ source_document_id' = [a \in DOMAIN rows |-> rows[a].source_document_id]
           /\ is_active' = [a \in DOMAIN rows |-> rows[a].is_active]
    /\ updated' = updated_count(search_feedback)
    /\ runs_since_feedback' = runs_since_feedback + 1
    /\ UNCHANGED <<server_vars, intent_vars, api_vars, request_vars, fused, intent, pc,
                   search_feedback, stage_input, boost_once,
                   vector_search_enabled, intent_conf, limit, results, query_log,
                   fetch_is_active, top_k, store_error, query_id,
                   deadline_expired, vector_queried>>

FeedbackNext == SubmitFeedback \/ RunAggregator

SpecFeedback == FeedbackInit /\ [][FeedbackNext]_vars

\* The aggregator run alone, on a drawn feedback table of one article.
QualityInit ==
    /\ \E stats \in [Ratings -> 0..MaxCount] :
          search_feedback = [aid \in FeedbackArticleIds |->
                                IF aid = "a1" THEN stats ELSE NoEntries]
    /\ quality_score = DefaultQuality
    /\ updated = 0
    /\ runs_since_feedback = 0
    /\ category = [a \in ArticleIds |-> "OTHER"]
    /\ source_document_id = [a \in ArticleIds |-> NULL]
    /\ NoRequest
    /\ NoStage
    /\ NoIntent
    /\ NoApi
    /\ NoServer
    /\ NoSearch
    /\ pc = "idle"

SpecQuality == QualityInit /\ [][RunAggregator]_vars

\* The aggregator run alone, on feedback tables of one article with few and
\* with many entries of each rating (the weight reaches MAX_WEIGHT at 15).
FeedbackCounts == {0, 1, 3, 15, 50}

QualityCapInit ==
    /\ \E stats \in [Ratings -> FeedbackCounts] :
          search_feedback = [aid \in FeedbackArticleIds |->
                                IF aid = "a1" THEN stats ELSE NoEntries]
    /\ quality_score = DefaultQuality
    /\ updated = 0
    /\ runs_since_feedback = 0
    /\ category = [a \in ArticleIds |-> "OTHER"]
    /\ source_document_id = [a \in ArticleIds |-> NULL]
    /\ NoRequest
    /\ NoStage
    /\ NoIntent
    /\ NoApi
    /\ NoServer
    /\ NoSearch
    /\ pc = "idle"

SpecQualityCap == QualityCapInit /\ [][RunAggregator]_vars

(***************************************************************************)
(* reranker.py: the blend of the cross-encoder scores (model.predict, one  *)
(* raw score per candidate) with the fusion scores of the candidates.      *)
(***************************************************************************)
RERANK_WEIGHT == Rat(15, 100)
FUSION_WEIGHT == Rat(85, 100)

RECURSIVE RMinOf(_)
RMinOf(s) ==
    IF Len(s) = 1 THEN s[1] ELSE RMin(s[1], RMinOf(Tail(s)))

\* [(s - min) / range for s in values], range 1.0 when max = min.
MinMaxNormalize(values) ==
    LET lo == RMinOf(values)
        hi == RMaxOf(values)
        range == IF hi # lo THEN RAdd(hi, RMul(RInt(-1), lo)) ELSE RInt(1)
    IN  [i \in 1..Len(values) |-> RDiv(RAdd(values[i], RMul(RInt(-1), lo)), range)]

\* sorted(candidates, key=lambda x: x["fusion_score"], reverse=True)
SortedByFusionScore(candidates) ==
    LET order == SortedDesc([i \in 1..Len(candidates) |->
                                <<i, candidates[i].fusion_score>>])
    IN  [k \in 1..Len(candidates) |-> candidates[order[k][1]]]

Blended(candidates, raw_scores) ==
    LET norm_scores == MinMaxNormalize(raw_scores)
        norm_fusion == MinMaxNormalize([i \in 1..Len(candidates) |->
                                           candidates[i].fusion_score])
    IN  [i \in 1..Len(candidates) |->
            [article_id         |-> candidates[i].article_id,
             category           |-> candidates[i].category,
             bm25_score         |-> candidates[i].bm25_score,
             vector_score       |-> candidates[i].vector_score,
             fusion_score       |-> RAdd(RMul(RERANK_WEIGHT, norm_scores[i]),
                                         RMul(FUSION_WEIGHT, norm_fusion[i])),
             source_document_id |-> candidates[i].source_document_id,
             rerank_score       |-> raw_scores[i]]]

\* Mutant: the candidates are returned in the order of the pool.
rerank_unsorted(candidates, raw_scores, n) ==
    IF Len(candidates) <= 1 THEN PySlice(candidates, n)
    ELSE PySlice(Blended(candidates, raw_scores), n)

\* Reranker.rerank: a pool of at most one candidate is returned as it is.
rerank(candidates, raw_scores, n) ==
    IF Len(candidates) <= 1 THEN PySlice(candidates, n)
    ELSE PySlice(SortedByFusionScore(Blended(candidates, raw_scores)), n)

(***************************************************************************)
(* Specification of one search request of HybridSearchEngine.search, one   *)
(* step per store call, running while the expand_articles batch job        *)
(* deactivates merged-from chunks (both connections are autocommit).       *)
(***************************************************************************)
MAX_TOP_K == 50
DEFAULT_TOP_K == 10
TopKs == {-1, 0, 1, 51}
TsRanks == {Rat(1, 200), Rat(1, 2)}
Cosines == {Rat(1, 2), Rat(9, 10)}
Strategies == {"rrf", "weighted", "adaptive"}
Confidences == {Rat(1, 5), Rat(1, 2)}
DetectedIntents == {"policy", "procedure", "unknown"}
BOOST_MIN_CONFIDENCE == Rat(3, 10)
RERANK_POOL == 20
RawScores == {Rat(-3, 1), Rat(2, 1)}
None == <<>>

\* The rows a retriever may return: its WHERE clause keeps active articles.
ActiveResultLists(scores, active, n) ==
    {s \in ResultLists(scores) :
        /\ Len(s) <= n
        /\ \A i \in 1..Len(s) : active[s[i][1]]}

\* Mutant: _bm25_search without its try/except.
bm25_search_no_except(rows, store_fails) ==
    [raised |-> store_fails, rows |-> IF store_fails THEN <<>> ELSE rows]

\* _bm25_search: what the caller gets when the store answers rows or fails.
bm25_search(rows, store_fails) ==
    [raised |-> FALSE, rows |-> IF store_fails THEN <<>> ELSE rows]

\* _detect_vector_capability: to_regtype('vector') IS NOT NULL, or False
\* when the store fails.
detect_vector_capability(regtype_found, store_fails) ==
    IF store_fails THEN FALSE ELSE regtype_found

\* Mutant: _vector_search without its test of vector_search_enabled.
vector_search_always_queries(enabled, rows, store_fails) ==
    IF store_fails
    THEN [raised |-> FALSE, rows |-> <<>>, enabled |-> FALSE, queried |-> TRUE]
    ELSE [raised |-> FALSE, rows |-> rows, enabled |-> enabled, queried |-> TRUE]

\* _vector_search: no store call when disabled; a failure disables it.
vector_search(enabled, rows, store_fails) ==
    IF ~enabled
    THEN [raised |-> FALSE, rows |-> <<>>, enabled |-> FALSE, queried |-> FALSE]
    ELSE IF store_fails
    THEN [raised |-> FALSE, rows |-> <<>>, enabled |-> FALSE, queried |-> TRUE]
    ELSE [raised |-> FALSE, rows |-> rows, enabled |-> TRUE, queried |-> TRUE]

\* Mutant: _log_query without its try/except.
log_query_no_except(store_fails, row_id) ==
    [raised |-> store_fails, query_id |-> IF store_fails THEN None ELSE <<row_id>>]

\* _log_query: the id of the inserted row, or None when the insert fails.
log_query(store_fails, row_id) ==
    [raised |-> FALSE, query_id |-> IF store_fails THEN None ELSE <<row_id>>]

\* _fetch_and_format_results: rows are selected by id alone.
fetch_and_format_results(fused_results, bm25, vector, n, category_of, doc_of) ==
    LET page == PySlice(fused_results, n)
    IN  [i \in 1..Len(page) |->
            [article_id         |-> page[i][1],
             category           |-> category_of[page[i][1]],
             bm25_score         |-> DictGet(bm25, page[i][1], RInt(0)),
             vector_score       |-> DictGet(vector, page[i][1], RInt(0)),
             fusion_score       |-> page[i][2],
             source_document_id |-> doc_of[page[i][1]]]]

\* Mutant: the quality multiplier is applied before the category boost.
stage_after_quality_first(stage, strategy) ==
    CASE stage = "bm25"    -> "vector"
      [] stage = "vector"  -> "fuse"
      [] stage = "fuse"    -> "quality"
      [] stage = "quality" -> "boost"
      [] stage = "boost"   -> "dedup"
      [] stage = "dedup"   -> "fetch"
      [] stage = "fetch"   -> IF strategy = "rerank" THEN "rerank" ELSE "log"
      [] stage = "rerank"  -> "log"
      [] stage = "log"     -> "done"

\* The order of the steps of search(): the step that follows a step.
stage_after(stage, strategy) ==
    CASE stage = "bm25"    -> "vector"
      [] stage = "vector"  -> "fuse"
      [] stage = "fuse"    -> "boost"
      [] stage = "boost"   -> "quality"
      [] stage = "quality" -> "dedup"
      [] stage = "dedup"   -> "fetch"
      [] stage = "fetch"   -> IF strategy = "rerank" THEN "rerank" ELSE "log"
      [] stage = "rerank"  -> "log"
      [] stage = "log"     -> "done"

SearchInit ==
    /\ NoRequest
    /\ NoStage
    /\ NoIntent
    /\ NoApi
    /\ NoServer
    /\ NoFeedback
    /\ category = [a \in ArticleIds |-> IF a = "a2" THEN "OTHER" ELSE "POLICY"]
    /\ source_document_id = [a \in ArticleIds |-> IF a = "a3" THEN NULL ELSE "d1"]
    /\ is_active \in {f \in [ArticleIds -> BOOLEAN] : f["a1"] /\ f["a2"]}
    /\ vector_search_enabled \in BOOLEAN
    /\ intent_conf = RInt(0)
    /\ limit = 10
    /\ results = <<>>
    /\ query_log = 0
    /\ fetch_is_active = [a \in ArticleIds |-> TRUE]
    /\ top_k = 10
    /\ store_error = {}
    /\ query_id = None
    /\ deadline_expired = FALSE
    /\ vector_queried = FALSE
    /\ pc = "idle"

\* POST /search caps top_k and enters search(); IntentDetector.detect
\* answers for the query.
\* What IntentDetector.detect answers: <<intent, confidence>>.
Detections ==
    {d \in DetectedIntents \X (Confidences \cup {Rat(3, 5)}) :
        d[2] \in CASE d[1] = "policy"  -> Confidences
                    [] d[1] = "unknown" -> {Rat(3, 5)}
                    [] OTHER            -> {Rat(1, 2)}}

StartSearchWith(strategies, top_ks, detections) ==
    /\ pc = "idle"
    /\ fusion_strategy' \in strategies
    /\ top_k' \in top_ks
    /\ limit' = IF top_k' < MAX_TOP_K THEN top_k' ELSE MAX_TOP_K
    /\ \E d \in detections :
          /\ intent' = d[1]
          /\ intent_conf' = d[2]
    /\ pc' = "bm25"
    /\ UNCHANGED <<server_vars, intent_vars, api_vars, bm25_results, vector_results, fused, store_vars, stage_input,
                   boost_once, is_active, vector_search_enabled, results,
                   query_log, fetch_is_active, store_error, query_id,
                   deadline_expired, vector_queried>>

StartSearch == StartSearchWith(Strategies, TopKs, Detections)

Bm25Search ==
    /\ pc = "bm25"
    /\ \E store_fails \in BOOLEAN :
       \E rows \in IF store_fails THEN {<<>>}
                   ELSE ActiveResultLists(TsRanks, is_active, MaxLen) :
          LET out == bm25_search(rows, store_fails)
          IN  /\ store_error' = IF store_fails THEN store_error \cup {"bm25"}
                                ELSE store_error
              /\ IF out.raised
                 THEN pc' = "failed" /\ UNCHANGED bm25_results
                 ELSE /\ pc' = stage_after("bm25", fusion_strategy)
                      /\ bm25_results' = out.rows
    /\ UNCHANGED <<server_vars, intent_vars, api_vars, vector_results, fused, fusion_strategy, intent, store_vars,
                   stage_input, boost_once, is_active, vector_search_enabled,
                   intent_conf, limit, results, query_log, fetch_is_active,
                   top_k, query_id, deadline_expired, vector_queried>>

\* _vector_search with LIMIT limit * 2; the store rejects a negative LIMIT.
VectorSearch ==
    /\ pc = "vector"
    /\ \E store_fails \in IF limit * 2 < 0 THEN {TRUE} ELSE BOOLEAN :
       \E rows \in IF store_fails \/ ~vector_search_enabled THEN {<<>>}
                   ELSE ActiveResultLists(Cosines, is_active, limit * 2) :
          LET out == vector_search(vector_search_enabled, rows, store_fails)
          IN  /\ store_error' = IF vector_search_enabled /\ store_fails
                                THEN store_error \cup {"vector"}
                                ELSE store_error
              /\ vector_search_enabled' = out.enabled
              /\ vector_queried' = out.queried
              /\ IF out.raised
                 THEN pc' = "failed" /\ UNCHANGED vector_results
                 ELSE /\ pc' = stage_after("vector", fusion_strategy)
                      /\ vector_results' = out.rows
    /\ UNCHANGED <<server_vars, intent_vars, api_vars, bm25_results, fused, fusion_strategy, intent, store_vars,
                   stage_input, boost_once, is_active, intent_conf, limit,
                   results, query_log, fetch_is_active, top_k, query_id,
                   deadline_expired>>

Fuse ==
    /\ pc = "fuse"
    /\ IF fusion_strategy = "rrf"
       THEN fused' = reciprocal_rank_fusion(bm25_results, vector_results)
       ELSE \E set_order \in SeqOrders(ArticleIds) :
               fused' = IF fusion_strategy = "weighted"
                        THEN weighted_combination(bm25_results, vector_results,
                                 DEFAULT_BM25_WEIGHT, DEFAULT_VECTOR_WEIGHT, set_order)
                        ELSE adaptive_fusion(bm25_results, vector_results, intent,
                                             set_order)
    /\ pc' = stage_after("fuse", fusion_strategy)
    /\ UNCHANGED <<server_vars, intent_vars, api_vars, request_vars, intent, store_vars, stage_input, boost_once,
                   search_vars>>

BoostApplies ==
    /\ intent \in {"policy", "procedure", "reference"}
    /\ RLeq(BOOST_MIN_CONFIDENCE, intent_conf)

CategoryBoost ==
    /\ pc = "boost"
    /\ fused' = IF BoostApplies
                THEN apply_category_boost(fused, intent, category)
                ELSE fused
    /\ pc' = stage_after("boost", fusion_strategy)
    /\ UNCHANGED <<server_vars, intent_vars, api_vars, request_vars, intent, store_vars, stage_input, boost_once,
                   search_vars>>

QualityScores ==
    /\ pc = "quality"
    /\ fused' = apply_quality_scores(fused, quality_score)
    /\ pc' = stage_after("quality", fusion_strategy)
    /\ UNCHANGED <<server_vars, intent_vars, api_vars, request_vars, intent, store_vars, stage_input, boost_once,
                   search_vars>>

\* Step 6, for the values of use_deduplication a caller passes.
DeduplicateWith(flags) ==
    /\ pc = "dedup"
    /\ \E use_deduplication \in flags :
          fused' = IF use_deduplication
                   THEN deduplicate_results(fused, source_document_id)
                   ELSE fused
    /\ pc' = stage_after("dedup", fusion_strategy)
    /\ UNCHANGED <<server_vars, intent_vars, api_vars, request_vars, intent, store_vars, stage_input, boost_once,
                   search_vars>>

\* POST /search passes use_deduplication=True.
DeduplicateResults == DeduplicateWith({TRUE})

FetchResults ==
    /\ pc = "fetch"
    /\ results' = fetch_and_format_results(fused, bm25_results, vector_results,
                                           limit, category, source_document_id)
    /\ fetch_is_active' = is_active
    /\ pc' = stage_after("fetch", fusion_strategy)
    /\ UNCHANGED <<server_vars, intent_vars, api_vars, request_vars, fused, intent, store_vars, stage_input,
                   boost_once, is_active, vector_search_enabled, intent_conf,
                   limit, query_log, top_k, store_error, query_id,
                   deadline_expired, vector_queried>>

\* Step 8: the pool is fetched again, min(limit * 2, 20) rows, and the
\* cross-encoder scores its candidates.
Rerank ==
    /\ pc = "rerank"
    /\ LET rerank_pool_results ==
               fetch_and_format_results(fused, bm25_results, vector_results,
                   IF limit * 2 < RERANK_POOL THEN limit * 2 ELSE RERANK_POOL,
                   category, source_document_id)
       IN  \E raw_scores \in [1..Len(rerank_pool_results) -> RawScores] :
              results' = rerank(rerank_pool_results, raw_scores, limit)
    /\ fetch_is_active' = is_active
    /\ pc' = stage_after("rerank", fusion_strategy)
    /\ UNCHANGED <<server_vars, intent_vars, api_vars, request_vars, fused, intent, store_vars, stage_input,
                   boost_once, is_active, vector_search_enabled, intent_conf,
                   limit, query_log, top_k, store_error, query_id,
                   deadline_expired, vector_queried>>

LogQuery ==
    /\ pc = "log"
    /\ \E store_fails \in BOOLEAN :
          LET out == log_query(store_fails, query_log + 1)
          IN  /\ query_log' = IF store_fails THEN query_log ELSE query_log + 1
              /\ IF out.raised
                 THEN pc' = "failed" /\ UNCHANGED query_id
                 ELSE /\ pc' = stage_after("log", fusion_strategy)
                      /\ query_id' = out.query_id
    /\ UNCHANGED <<server_vars, intent_vars, api_vars, request_vars, fused, intent, store_vars, stage_input,
                   boost_once, is_active, vector_search_enabled, intent_conf,
                   limit, results, fetch_is_active, top_k, store_error,
                   deadline_expired, vector_queried>>

\* An exception nothing in search() catches: embed_query before the
\* retrievers, or the store call of a stage; POST /search answers 500.
UncaughtError ==
    /\ \/ pc = "bm25"
       \/ pc = "boost" /\ BoostApplies /\ fused # <<>>
       \/ pc \in {"quality", "dedup"} /\ fused # <<>>
       \/ pc = "fetch" /\ PySlice(fused, limit) # <<>>
       \/ pc = "rerank"
    /\ pc' = "failed"
    /\ UNCHANGED <<server_vars, intent_vars, api_vars, request_vars, fused, intent, store_vars, stage_input,
                   boost_once, search_vars>>

\* expand_articles: one UPDATE ... SET is_active = false of a merged-from
\* chunk; the primary chunk of its source document stays active.
DeactivateChunk ==
    /\ \E chunk_id \in ArticleIds :
          /\ is_active[chunk_id]
          /\ source_document_id[chunk_id] # NULL
          /\ \E primary_id \in ArticleIds \ {chunk_id} :
                /\ is_active[primary_id]
                /\ source_document_id[primary_id] = source_document_id[chunk_id]
          /\ is_active' = [is_active EXCEPT ![chunk_id] = FALSE]
    /\ UNCHANGED <<server_vars, intent_vars, api_vars, request_vars, fused, intent, pc, store_vars, stage_input,
                   boost_once, vector_search_enabled, intent_conf, limit,
                   results, query_log, fetch_is_active, top_k, store_error,
                   query_id, deadline_expired, vector_queried>>

SearchNext ==
    \/ StartSearch
    \/ Bm25Search
    \/ VectorSearch
    \/ Fuse
    \/ CategoryBoost
    \/ QualityScores
    \/ DeduplicateResults
    \/ FetchResults
    \/ LogQuery
    \/ UncaughtError
    \/ DeactivateChunk

SpecSearch == SearchInit /\ [][SearchNext]_vars

(***************************************************************************)
(* Specification of step 5 of search() alone, on candidate lists around    *)
(* the 30 candidates whose categories are looked up: the candidates are    *)
(* numbered by their position, and the articles at some of the positions   *)
(* 1, 2, 30, 31, 32 are of one category.                                   *)
(***************************************************************************)
WindowLengths == {2, TOP_N, TOP_N + 1, TOP_N + 2}
MatchPositions == {1, 2, TOP_N, TOP_N + 1, TOP_N + 2}
StepConfidences == {Rat(29, 100), Rat(3, 10), Rat(9, 10)}

\* Fused lists of n candidates: all of one score, or slowly descending.
WindowLists(n) ==
    {[i \in 1..n |-> <<i, Rat(1, 2)>>], [i \in 1..n |-> <<i, Rat(100 - i, 100)>>]}

BoostStepInit ==
    /\ \E n \in WindowLengths :
          /\ fused \in WindowLists(n)
          /\ \E matching \in SUBSET (MatchPositions \cap 1..n) :
             \E c \in {"POLICY", "PROCEDURE"} :
                category = [i \in 1..n |-> IF i \in matching THEN c ELSE "OTHER"]
    /\ intent \in Intents
    /\ intent_conf \in StepConfidences
    /\ source_document_id = [a \in ArticleIds |-> NULL]
    /\ NoFeedback
    /\ bm25_results = <<>>
    /\ vector_results = <<>>
    /\ fusion_strategy = "adaptive"
    /\ pc = "boost"
    /\ NoStage
    /\ NoIntent
    /\ NoApi
    /\ NoServer
    /\ is_active = [a \in ArticleIds |-> TRUE]
    /\ vector_search_enabled = TRUE
    /\ limit = DEFAULT_TOP_K
    /\ top_k = DEFAULT_TOP_K
    /\ results = <<>>
    /\ query_log = 0
    /\ fetch_is_active = [a \in ArticleIds |-> TRUE]
    /\ store_error = {}
    /\ query_id = None
    /\ deadline_expired = FALSE
    /\ vector_queried = FALSE

SpecBoostStep == BoostStepInit /\ [][CategoryBoost]_vars

(***************************************************************************)
(* Specification of the writers and readers of kb_articles: aggregator     *)
(* runs on a drawn feedback table, interleaved with the category boost and *)
(* the quality multiplier of a request over a drawn candidate list.        *)
(***************************************************************************)
WritesInit ==
    /\ \E stats \in [Ratings -> {0, MIN_FEEDBACK}] :
          search_feedback = [aid \in FeedbackArticleIds |->
                                IF aid = "a1" THEN stats ELSE NoEntries]
    /\ quality_score = DefaultQuality
    /\ updated = 0
    /\ runs_since_feedback = 0
    /\ category \in {[a \in ArticleIds |-> IF a = "a2" THEN "OTHER" ELSE "POLICY"],
                     [a \in ArticleIds |-> "PROCEDURE"]}
    /\ source_document_id = [a \in ArticleIds |-> IF a = "a3" THEN NULL ELSE "d1"]
    /\ is_active \in [ArticleIds -> BOOLEAN]
    /\ fused \in CandidateLists
    /\ intent = "policy"
    /\ intent_conf = Rat(1, 2)
    /\ bm25_results = <<>>
    /\ vector_results = <<>>
    /\ fusion_strategy = "adaptive"
    /\ pc = "boost"
    /\ NoStage
    /\ NoIntent
    /\ NoApi
    /\ NoServer
    /\ vector_search_enabled = TRUE
    /\ limit = DEFAULT_TOP_K
    /\ top_k = DEFAULT_TOP_K
    /\ results = <<>>
    /\ query_log = 0
    /\ fetch_is_active = [a \in ArticleIds |-> TRUE]
    /\ store_error = {}
    /\ query_id = None
    /\ deadline_expired = FALSE
    /\ vector_queried = FALSE

WritesNext == RunAggregator \/ CategoryBoost \/ QualityScores

SpecWrites == WritesInit /\ [][WritesNext]_vars

(***************************************************************************)
(* Specification of one call of HybridSearchEngine.search by any caller:   *)
(* each of the four strategies, with or without deduplication, for a query *)
(* detected as policy below or above the boost threshold, two results      *)
(* asked for, over a store that does not change during the call and in     *)
(* which feedback may have raised the quality score of one article.        *)
(***************************************************************************)
PipelineInit ==
    /\ NoRequest
    /\ NoStage
    /\ NoIntent
    /\ NoApi
    /\ NoServer
    /\ quality_score \in {DefaultQuality,
                          [DefaultQuality EXCEPT !["a2"] = Rat(115, 100)]}
    /\ search_feedback = [aid \in FeedbackArticleIds |-> NoEntries]
    /\ updated = 0
    /\ runs_since_feedback = 0
    /\ category = [a \in ArticleIds |-> IF a = "a2" THEN "OTHER" ELSE "POLICY"]
    /\ source_document_id = [a \in ArticleIds |-> IF a = "a3" THEN NULL ELSE "d1"]
    /\ is_active = [a \in ArticleIds |-> TRUE]
    /\ vector_search_enabled \in BOOLEAN
    /\ intent_conf = RInt(0)
    /\ limit = DEFAULT_TOP_K
    /\ results = <<>>
    /\ query_log = 0
    /\ fetch_is_active = [a \in ArticleIds |-> TRUE]
    /\ top_k = DEFAULT_TOP_K
    /\ store_error = {}
    /\ query_id = None
    /\ deadline_expired = FALSE
    /\ vector_queried = FALSE
    /\ pc = "idle"

StartAnySearch ==
    StartSearchWith(Strategies \cup {"rerank"}, {2},
                    {d \in Detections : d[1] = "policy"})

DeduplicateIfEnabled == DeduplicateWith(BOOLEAN)

PipelineNext ==
    \/ StartAnySearch
    \/ Bm25Search
    \/ VectorSearch
    \/ Fuse
    \/ CategoryBoost
    \/ QualityScores
    \/ DeduplicateIfEnabled
    \/ FetchResults
    \/ Rerank
    \/ LogQuery
    \/ UncaughtError

SpecPipeline == PipelineInit /\ [][PipelineNext]_vars

(***************************************************************************)
(* Specification of step 8 of search() alone: the adjusted candidate list  *)
(* of up to four articles and the capped top_k of the request are drawn,   *)
(* the pool is fetched and reranked.                                       *)
(***************************************************************************)
PoolIds == {"a1", "a2", "a3", "a4"}
PoolLimits == {-1, 1, 3}

PoolLists ==
    {s \in UNION {[1..n -> PoolIds \X CandidateScores] : n \in 0..Cardinality(PoolIds)} :
        UniqueIds(s) /\ NonIncreasing(s)}

RerankInit ==
    /\ fused \in PoolLists
    /\ limit \in PoolLimits
    /\ top_k = limit
    /\ fusion_strategy = "rerank"
    /\ pc = "rerank"
    /\ bm25_results = <<>>
    /\ vector_results = <<>>
    /\ intent = "unknown"
    /\ intent_conf = RInt(0)
    /\ category = [a \in PoolIds |-> "OTHER"]
    /\ source_document_id = [a \in PoolIds |-> NULL]
    /\ is_active = [a \in PoolIds |-> TRUE]
    /\ fetch_is_active = [a \in PoolIds |-> TRUE]
    /\ NoFeedback
    /\ NoStage
    /\ NoIntent
    /\ NoApi
    /\ NoServer
    /\ vector_search_enabled = TRUE
    /\ results = <<>>
    /\ query_log = 0
    /\ store_error = {}
    /\ query_id = None
    /\ deadline_expired = FALSE
    /\ vector_queried = FALSE

SpecRerank == RerankInit /\ [][Rerank]_vars

(***************************************************************************)
(* Specification of the default request (adaptive fusion, top_k 10) with   *)
(* the clock: the deadline of the request may pass while a store or model  *)
(* call of search() is pending.                                            *)
(***************************************************************************)
StartDefaultSearch == StartSearchWith({"adaptive"}, {DEFAULT_TOP_K}, Detections)

\* The step search() is at sends a call to the store or to a model.
CallPending ==
    \/ pc \in {"bm25", "log"}
    \/ pc = "vector" /\ vector_search_enabled
    \/ pc = "boost" /\ BoostApplies /\ fused # <<>>
    \/ pc \in {"quality", "dedup"} /\ fused # <<>>
    \/ pc = "fetch" /\ PySlice(fused, limit) # <<>>

\* The deadline passes during the pending call.  search() reads the clock
\* for its metrics only: no step compares it with a deadline.
DeadlineExpires ==
    /\ CallPending
    /\ ~deadline_expired
    /\ deadline_expired' = TRUE
    /\ UNCHANGED <<server_vars, intent_vars, api_vars, request_vars, fused, intent, pc, store_vars, stage_input,
                   boost_once, is_active, vector_search_enabled, intent_conf,
                   limit, results, query_log, fetch_is_active, top_k,
                   store_error, query_id, vector_queried>>

DeadlineNext ==
    \/ StartDefaultSearch
    \/ Bm25Search
    \/ VectorSearch
    \/ Fuse
    \/ CategoryBoost
    \/ QualityScores
    \/ DeduplicateResults
    \/ FetchResults
    \/ LogQuery
    \/ UncaughtError
    \/ DeactivateChunk
    \/ DeadlineExpires

SpecDeadline == SearchInit /\ [][DeadlineNext]_vars

(***************************************************************************)
(* intent_detection.py: the classifier, as a function of what it sees of   *)
(* the query: the class probabilities of the trained model, and per intent *)
(* the number of priority phrases, whole-word keywords and keywords inside *)
(* a longer word that occur in the query.                                  *)
(***************************************************************************)
MaxHits == 2
ProbaSteps == 8
LABELS == {"policy", "procedure", "reference", "unknown"}
MODEL_CLASSES == <<"policy", "procedure", "reference", "unknown">>
KEYWORD_INTENTS == <<"policy", "procedure", "reference">>
ML_MIN_CONFIDENCE == Rat(4, 10)
KEYWORD_MIN_CONFIDENCE == Rat(1, 10)

\* round(x, 2) for x >= 0: to the nearest hundredth, a tie to the even one.
Round2(x) ==
    LET p == x[1] * 100
        q == x[2]
        f == p \div q
        r == p - f * q
    IN  IF 2 * r > q THEN Rat(f + 1, 100)
        ELSE IF 2 * r < q THEN Rat(f, 100)
        ELSE IF f % 2 = 0 THEN Rat(f, 100) ELSE Rat(f + 1, 100)

\* Index of the first largest entry (argmax, and max over a dict by value).
ArgMax(s) ==
    CHOOSE i \in 1..Len(s) :
        /\ \A j \in 1..Len(s) : RLeq(s[j], s[i])
        /\ \A j \in 1..(i - 1) : RLess(s[j], s[i])

detect_ml(proba) ==
    LET best_idx == ArgMax(proba)
        confidence == proba[best_idx]
    IN  IF RLess(confidence, ML_MIN_CONFIDENCE)
        THEN <<"unknown", Round2(RAdd(RInt(1), RMul(RInt(-1), confidence)))>>
        ELSE <<MODEL_CLASSES[best_idx], Round2(confidence)>>

\* Mutant: the score is not capped at 1.0.
score_intent_uncapped(hits) ==
    RDiv(Rat(4 * hits.priority + 2 * hits.whole + hits.partial, 2), RInt(5))

\* _score_intent: 2.0 per priority phrase, 1.0 per whole-word keyword, 0.5
\* per keyword found inside a longer word.
score_intent(hits) ==
    RMin(RInt(1),
         RDiv(Rat(4 * hits.priority + 2 * hits.whole + hits.partial, 2), RInt(5)))

detect_keywords(hits) ==
    LET scores == [i \in 1..Len(KEYWORD_INTENTS) |->
                      score_intent(hits[KEYWORD_INTENTS[i]])]
        best == ArgMax(scores)
        confidence == scores[best]
    IN  IF RLess(confidence, KEYWORD_MIN_CONFIDENCE)
        THEN <<"unknown", confidence>>
        ELSE <<KEYWORD_INTENTS[best], confidence>>

\* IntentDetector.detect, given what _load_model returned.
detect(model, input) ==
    IF model # "None" THEN detect_ml(input.proba) ELSE detect_keywords(input.hits)

ProbaVectors ==
    {v \in [1..Len(MODEL_CLASSES) -> {Rat(k, ProbaSteps) : k \in 0..ProbaSteps}] :
        RAdd(RAdd(v[1], v[2]), RAdd(v[3], v[4])) = RInt(1)}
Hits == [priority : 0..MaxHits, whole : 0..MaxHits, partial : 0..MaxHits]
NoHits == [priority |-> 0, whole |-> 0, partial |-> 0]
HitVectors == [{"policy", "procedure", "reference"} -> Hits]

(***************************************************************************)
(* Specification of the classifier: the features of a query are drawn, on  *)
(* the ML path (a model is loaded) or on the keyword path (no model), and  *)
(* detect is applied.                                                      *)
(***************************************************************************)
IntentInit ==
    /\ NoRequest
    /\ NoStage
    /\ NoStore
    /\ NoSearch
    /\ NoApi
    /\ NoServer
    /\ pc = "input"
    /\ MODEL_LOADED = TRUE
    /\ thread_pc = [t \in Threads |-> "idle"]
    /\ thread_model = [t \in Threads |-> "None"]
    /\ thread_out = [t \in Threads |-> <<>>]
    /\ \/ /\ MODEL = "model"
          /\ \E v \in ProbaVectors :
                detect_input = [proba |-> v,
                                hits |-> [i \in {"policy", "procedure", "reference"}
                                            |-> NoHits]]
       \/ /\ MODEL = "None"
          /\ \E h \in HitVectors :
                detect_input = [proba |-> <<RInt(0), RInt(0), RInt(0), RInt(1)>>,
                                hits |-> h]

Detect ==
    /\ pc = "input"
    /\ intent' = detect(MODEL, detect_input)[1]
    /\ intent_conf' = detect(MODEL, detect_input)[2]
    /\ pc' = "detected"
    /\ UNCHANGED <<server_vars, intent_vars, api_vars, request_vars, fused, store_vars,
                   stage_input, boost_once, is_active, vector_search_enabled,
                   limit, results, query_log, fetch_is_active, top_k,
                   store_error, query_id, deadline_expired, vector_queried>>

SpecIntent == IntentInit /\ [][Detect]_vars

(***************************************************************************)
(* Specification of IntentDetector.detect called for the same query by two *)
(* request threads of the threaded server, from a process that has not     *)
(* loaded the model yet; the model file does not change.                   *)
(***************************************************************************)
ModelFiles == {"absent", "valid", "unloadable"}

LoadInit ==
    /\ NoRequest
    /\ NoStage
    /\ NoStore
    /\ NoSearch
    /\ NoApi
    /\ NoServer
    /\ pc = "serving"
    /\ MODEL_LOADED = FALSE
    /\ MODEL = "None"
    /\ thread_pc = [t \in Threads |-> "idle"]
    /\ thread_model = [t \in Threads |-> "None"]
    /\ thread_out = [t \in Threads |-> <<>>]
    /\ \E v \in ProbaVectors, n \in 0..MaxHits, f \in ModelFiles :
          detect_input =
              [proba |-> v,
               hits |-> [i \in {"policy", "procedure", "reference"} |->
                            IF i = "policy" THEN [NoHits EXCEPT !.priority = n]
                            ELSE NoHits],
               model_file |-> f]

load_frame == <<request_vars, fused, intent, pc, store_vars, stage_input,
                boost_once, search_vars, api_vars, server_vars, detect_input>>

\* detect(query) is entered by a thread.
CallDetect(t) ==
    /\ thread_pc[t] = "idle"
    /\ thread_pc' = [thread_pc EXCEPT ![t] = "check"]
    /\ UNCHANGED <<load_frame, MODEL_LOADED, MODEL, thread_model, thread_out>>

\* _load_model: if _MODEL_LOADED: return _MODEL
CheckLoaded(t) ==
    /\ thread_pc[t] = "check"
    /\ IF MODEL_LOADED
       THEN /\ thread_model' = [thread_model EXCEPT ![t] = MODEL]
            /\ thread_pc' = [thread_pc EXCEPT ![t] = "detect"]
       ELSE /\ thread_pc' = [thread_pc EXCEPT ![t] = "set"]
            /\ UNCHANGED thread_model
    /\ UNCHANGED <<load_frame, MODEL_LOADED, MODEL, thread_out>>

\* _load_model: _MODEL_LOADED = True
SetLoaded(t) ==
    /\ thread_pc[t] = "set"
    /\ MODEL_LOADED' = TRUE
    /\ thread_pc' = [thread_pc EXCEPT ![t] = "load"]
    /\ UNCHANGED <<load_frame, MODEL, thread_model, thread_out>>

\* _load_model: joblib.load of the file if it exists, then return _MODEL
LoadFile(t) ==
    /\ thread_pc[t] = "load"
    /\ MODEL' = CASE detect_input.model_file = "valid"      -> "model"
                  [] detect_input.model_file = "unloadable" -> "None"
                  [] OTHER                                  -> MODEL
    /\ thread_model' = [thread_model EXCEPT ![t] = MODEL']
    /\ thread_pc' = [thread_pc EXCEPT ![t] = "detect"]
    /\ UNCHANGED <<load_frame, MODEL_LOADED, thread_out>>

\* detect: the ML path if a model was returned, else the keyword path.
DetectWith(t) ==
    /\ thread_pc[t] = "detect"
    /\ thread_out' = [thread_out EXCEPT ![t] = detect(thread_model[t], detect_input)]
    /\ thread_pc' = [thread_pc EXCEPT ![t] = "done"]
    /\ UNCHANGED <<load_frame, MODEL_LOADED, MODEL, thread_model>>

LoadNext ==
    \E t \in Threads :
        \/ CallDetect(t)
        \/ CheckLoaded(t)
        \/ SetLoaded(t)
        \/ LoadFile(t)
        \/ DetectWith(t)

SpecLoad == LoadInit /\ [][LoadNext]_vars

(***************************************************************************)
(* search_api.py: the HTTP endpoints.  A JSON value is modelled by its     *)
(* kind; a request is its endpoint, the ENVIRONMENT of the process, its    *)
(* Authorization header (as the list of its words) and its body.           *)
(***************************************************************************)
MaxRequests == 2
API_KEY == "dev-key-change-in-production"
Environments == {"production", "Production", "development", NULL}
AuthHeaders == {<<>>, <<"Bearer">>, <<"Basic", API_KEY>>, <<"Bearer", "wrong">>,
                <<"Bearer", API_KEY>>}
BodyKinds == {"missing", "unparsable", "empty", "object"}
QueryKinds == {"absent", "blank", "str", "list", "null"}
TopKKinds == {"absent", "int", "str", "float", "null"}
QueryIdKinds == {"absent", "str"}
ResultRankKinds == {"absent", "positive", "zero", "negative", "str"}
RatingValues == {"absent", "helpful", "not_helpful", "incorrect", "great"}
ApiArticleIds == {"a1", NULL}

\* str.lower on the values of ENVIRONMENT
Lower(e) == IF e = "Production" THEN "production" ELSE e

\* RuntimeConfig.is_production
is_production(environment) == Lower(environment) = "production"

\* require_api_key: 0 when the view is called, else the status it answers.
require_api_key(environment, auth_header) ==
    IF environment = "production"
    THEN IF ~(Len(auth_header) >= 2 /\ auth_header[1] = "Bearer") THEN 401
         ELSE IF auth_header[2] # API_KEY THEN 403
         ELSE 0
    ELSE 0

Answer(status, error, called) ==
    [status |-> status, error |-> error, called |-> called]

\* request.get_json() of both POST views: a body that does not parse raises
\* BadRequest; without a JSON body it returns None or raises, depending on
\* the Flask version; except Exception turns what is raised into a 500.
get_json_answer(body, get_json_raises) ==
    IF body.kind = "unparsable" THEN Answer(500, "BadRequest", FALSE)
    ELSE IF body.kind = "missing" /\ get_json_raises
    THEN Answer(500, "UnsupportedMediaType", FALSE)
    ELSE Answer(400, "Request body required", FALSE)

\* search(): the view of POST /search
search_view(body, get_json_raises, engine_raises) ==
    IF body.kind # "object" THEN get_json_answer(body, get_json_raises)
    ELSE IF body.query \in {"list", "null"}
    THEN Answer(500, "AttributeError", FALSE)
    ELSE IF body.query \in {"absent", "blank"}
    THEN Answer(400, "Query parameter required", FALSE)
    ELSE IF body.top_k \in {"str", "null"}
    THEN Answer(500, "TypeError", FALSE)
    ELSE IF body.top_k = "float" THEN Answer(500, "TypeError", TRUE)
    ELSE IF engine_raises THEN Answer(500, "RuntimeError", TRUE)
    ELSE Answer(200, "", TRUE)

\* submit_feedback(): the view of POST /feedback
feedback_view(body, get_json_raises) ==
    IF body.kind # "object" THEN get_json_answer(body, get_json_raises)
    ELSE IF body.query_id = "absent" \/ body.result_rank = "absent"
            \/ body.rating = "absent"
    THEN Answer(400, "query_id, result_rank, and rating required", FALSE)
    ELSE IF body.rating \notin {"helpful", "not_helpful", "incorrect"}
    THEN Answer(400, "Invalid rating", FALSE)
    ELSE Answer(200, "", TRUE)

\* stats(): the view of GET /stats
stats_view(engine_raises) ==
    IF engine_raises THEN Answer(500, "RuntimeError", TRUE) ELSE Answer(200, "", TRUE)

NoBody ==
    [kind |-> "missing", query |-> "absent", top_k |-> "absent",
     query_id |-> "absent", result_rank |-> "absent", rating |-> "absent",
     article_id |-> NULL]
SearchBodies ==
    {[NoBody EXCEPT !.kind = k] : k \in BodyKinds \ {"object"}} \cup
    {[NoBody EXCEPT !.kind = "object", !.query = q, !.top_k = k] :
        q \in QueryKinds, k \in TopKKinds}
FeedbackBodies ==
    {[NoBody EXCEPT !.kind = k] : k \in BodyKinds \ {"object"}} \cup
    {[NoBody EXCEPT !.kind = "object", !.query_id = q, !.result_rank = n,
                    !.rating = r, !.article_id = a] :
        q \in QueryIdKinds, n \in ResultRankKinds, r \in RatingValues,
        a \in ApiArticleIds}
ValidSearchBody == [NoBody EXCEPT !.kind = "object", !.query = "str"]
ValidFeedbackBody ==
    [NoBody EXCEPT !.kind = "object", !.query_id = "str",
                   !.result_rank = "positive", !.rating = "helpful",
                   !.article_id = "a1"]

\* The requests drawn: every body without and with a valid key, and every
\* ENVIRONMENT and Authorization header with a valid body.
Requests(endpoint, bodies, valid_body) ==
    {[endpoint |-> endpoint, environment |-> e, auth |-> h, body |-> b] :
        e \in {"development", "production"}, h \in {<<"Bearer", API_KEY>>},
        b \in bodies}
    \cup
    {[endpoint |-> endpoint, environment |-> e, auth |-> h, body |-> valid_body] :
        e \in Environments, h \in AuthHeaders}

(***************************************************************************)
(* Specification of the endpoints: requests are served one after another   *)
(* by the decorated views; the engine is given by how it answers.          *)
(***************************************************************************)
ApiInit ==
    /\ NoRequest
    /\ NoStage
    /\ NoStore
    /\ NoSearch
    /\ NoIntent
    /\ NoServer
    /\ request = <<>>
    /\ http_status = 0
    /\ http_error = ""
    /\ engine_calls = 0
    /\ pc = "serving"

api_frame == <<request_vars, fused, intent, pc, category, source_document_id,
               quality_score, updated, stage_input, boost_once, is_active,
               vector_search_enabled, intent_conf, limit, results, query_log,
               fetch_is_active, top_k, query_id, deadline_expired,
               vector_queried, intent_vars, server_vars>>

Respond(req, status, answer) ==
    /\ request' = req
    /\ http_status' = IF status # 0 THEN status ELSE answer.status
    /\ http_error' = IF status = 401 THEN "Missing or invalid Authorization header"
                     ELSE IF status = 403 THEN "Invalid API key"
                     ELSE answer.error
    /\ engine_calls' = IF status = 0 /\ answer.called
                       THEN engine_calls + 1 ELSE engine_calls

PostSearch ==
    /\ engine_calls < MaxRequests
    /\ \E req \in Requests("search", SearchBodies, ValidSearchBody),
          get_json_raises \in BOOLEAN, engine_raises \in BOOLEAN :
          Respond(req, require_api_key(req.environment, req.auth),
                  search_view(req.body, get_json_raises, engine_raises))
    /\ UNCHANGED <<api_frame, search_feedback, runs_since_feedback, store_error>>

\* _log_feedback swallows a failed insert.
PostFeedback ==
    /\ engine_calls < MaxRequests
    /\ \E req \in Requests("feedback", FeedbackBodies, ValidFeedbackBody),
          get_json_raises \in BOOLEAN, store_fails \in BOOLEAN :
          LET status == require_api_key(req.environment, req.auth)
              answer == feedback_view(req.body, get_json_raises)
              called == status = 0 /\ answer.called
          IN  /\ Respond(req, status, answer)
              /\ search_feedback' =
                    IF called /\ ~store_fails
                    THEN [search_feedback EXCEPT
                             ![req.body.article_id][req.body.rating] = @ + 1]
                    ELSE search_feedback
              /\ runs_since_feedback' =
                    IF called /\ ~store_fails THEN 0 ELSE runs_since_feedback
              /\ store_error' = IF called /\ store_fails THEN {"feedback"} ELSE {}
    /\ UNCHANGED api_frame

GetStats ==
    /\ engine_calls < MaxRequests
    /\ \E req \in Requests("stats", {NoBody}, NoBody), engine_raises \in BOOLEAN :
          Respond(req, require_api_key(req.environment, req.auth),
                  stats_view(engine_raises))
    /\ UNCHANGED <<api_frame, search_feedback, runs_since_feedback, store_error>>

ApiNext == PostSearch \/ PostFeedback \/ GetStats

SpecApi == ApiInit /\ [][ApiNext]_vars

(***************************************************************************)
(* Specification of the threaded server (app.run(threaded=True)): two      *)
(* requests to /search arrive in a fresh process, each served by its own   *)
(* thread: _get_engine, then the keyword and the vector query of search()  *)
(* on the cursor of the engine (self.cur.execute, then self.cur.fetchall). *)
(***************************************************************************)
StoreQueries == <<"bm25", "vector">>

ServerInit ==
    /\ NoServer
    /\ NoRequest
    /\ NoStage
    /\ NoStore
    /\ NoSearch
    /\ NoIntent
    /\ NoApi
    /\ pc = "idle"

server_frame == <<request_vars, fused, intent, pc, store_vars, stage_input,
                  boost_once, search_vars, intent_vars, api_vars>>

\* if _engine is None:
CheckEngine(t) ==
    /\ worker_pc[t] = "idle"
    /\ worker_pc' = [worker_pc EXCEPT ![t] = IF engine = None THEN "construct"
                                                               ELSE "return"]
    /\ UNCHANGED <<server_frame, engine, engines_built, cur, worker_engine, worker_rows>>

\* _engine = HybridSearchEngine(): a new connection with its cursor.
ConstructEngine(t) ==
    /\ worker_pc[t] = "construct"
    /\ engines_built' = engines_built + 1
    /\ engine' = <<engines_built'>>
    /\ cur' = Append(cur, None)
    /\ worker_pc' = [worker_pc EXCEPT ![t] = "return"]
    /\ UNCHANGED <<server_frame, worker_engine, worker_rows>>

\* return _engine
ReturnEngine(t) ==
    /\ worker_pc[t] = "return"
    /\ worker_engine' = [worker_engine EXCEPT ![t] = engine]
    /\ worker_pc' = [worker_pc EXCEPT ![t] = "execute"]
    /\ UNCHANGED <<server_frame, engine, engines_built, cur, worker_rows>>

\* self.cur.execute(...): the cursor now holds the result set of this query.
Execute(t) ==
    /\ worker_pc[t] = "execute"
    /\ LET e == worker_engine[t][1]
           query == StoreQueries[Len(worker_rows[t]) + 1]
       IN  cur' = [cur EXCEPT ![e] = <<t, query>>]
    /\ worker_pc' = [worker_pc EXCEPT ![t] = "fetchall"]
    /\ UNCHANGED <<server_frame, engine, engines_built, worker_engine, worker_rows>>

\* self.cur.fetchall(): the rows the cursor holds, which are then consumed
\* (nothing is left for the next fetchall; the retriever returns []).
Fetchall(t) ==
    /\ worker_pc[t] = "fetchall"
    /\ LET e == worker_engine[t][1]
       IN  /\ worker_rows' = [worker_rows EXCEPT ![t] = Append(@, cur[e])]
           /\ cur' = [cur EXCEPT ![e] = None]
    /\ worker_pc' = [worker_pc EXCEPT ![t] =
                        IF Len(worker_rows'[t]) < Len(StoreQueries)
                        THEN "execute" ELSE "fuse"]
    /\ UNCHANGED <<server_frame, engine, engines_built, worker_engine>>

ServerNext ==
    \E t \in Threads :
       \/ CheckEngine(t)
       \/ ConstructEngine(t)
       \/ ReturnEngine(t)
       \/ Execute(t)
       \/ Fetchall(t)

SpecServer == ServerInit /\ [][ServerNext]_vars

(***************************************************************************)
(* Specification of the lifetime of one engine: constructed with or        *)
(* without the vector capability, it serves one request after another      *)
(* (adaptive fusion, two results, a query of unknown intent).              *)
(***************************************************************************)
EngineInit ==
    /\ NoRequest
    /\ NoStage
    /\ NoIntent
    /\ NoApi
    /\ NoServer
    /\ NoStore
    /\ is_active = [a \in ArticleIds |-> TRUE]
    /\ \E regtype_found \in BOOLEAN, store_fails \in BOOLEAN :
          vector_search_enabled = detect_vector_capability(regtype_found, store_fails)
    /\ intent_conf = RInt(0)
    /\ limit = DEFAULT_TOP_K
    /\ results = <<>>
    /\ query_log = 0
    /\ fetch_is_active = [a \in ArticleIds |-> TRUE]
    /\ top_k = DEFAULT_TOP_K
    /\ store_error = {}
    /\ query_id = None
    /\ deadline_expired = FALSE
    /\ vector_queried = FALSE
    /\ pc = "idle"

StartEngineSearch ==
    StartSearchWith({"adaptive"}, {2}, {d \in Detections : d[1] = "unknown"})

\* search() has returned or raised; the engine takes the next request.
NextRequest ==
    /\ pc \in {"done", "failed"}
    /\ engine_calls + 1 < MaxRequests
    /\ engine_calls' = engine_calls + 1
    /\ pc' = "idle"
    /\ bm25_results' = <<>>
    /\ vector_results' = <<>>
    /\ fused' = <<>>
    /\ results' = <<>>
    /\ store_error' = {}
    /\ query_id' = None
    /\ vector_queried' = FALSE
    /\ UNCHANGED <<server_vars, intent_vars, request, http_status, http_error,
                   fusion_strategy, intent, store_vars, stage_input, boost_once,
                   is_active, vector_search_enabled, intent_conf, limit,
                   query_log, fetch_is_active, top_k, deadline_expired>>

EngineNext ==
    \/ StartEngineSearch
    \/ Bm25Search
    \/ VectorSearch
    \/ Fuse
    \/ CategoryBoost
    \/ QualityScores
    \/ DeduplicateResults
    \/ FetchResults
    \/ LogQuery
    \/ UncaughtError
    \/ NextRequest

SpecEngine == EngineInit /\ [][EngineNext]_vars

(***************************************************************************)
(* The properties.                                                         *)
(***************************************************************************)
\* C2: no search response contains an article that was inactive when its row
\* was fetched for the response, also when the batch job deactivates the
\* article between retrieval and the fetch of the same request.
C2_ResponseArticlesActive ==
    pc \in {"log", "done"} =>
        \A i \in 1..Len(results) : fetch_is_active[results[i].article_id]

InUnitInterval(x) == RLeq(RInt(0), x) /\ RLeq(x, RInt(1))
StrictlyDescending(s) == \A i \in 1..(Len(s) - 1) : RLess(s[i + 1][2], s[i][2])

\* C1: with the default weights (0.3, 0.6), every score weighted_combination
\* returns lies in [0, 1], also when the keyword list holds negative scores.
C1_WeightedScoresInUnitInterval ==
    (pc = "fused" /\ fusion_strategy = "weighted") =>
        \A i \in 1..Len(fused) : InUnitInterval(fused[i][2])

\* C4: for RRF and Weighted fusion of lists with unique ids, the output has
\* no duplicate id and its ids are exactly ids(B) \cup ids(V).
C4_FusionIdsAreUnion ==
    (pc = "fused" /\ fusion_strategy \in {"rrf", "weighted"}) =>
        /\ UniqueIds(fused)
        /\ Ids(fused) = Ids(bm25_results) \cup Ids(vector_results)

C4_Witness ==
    /\ pc = "fused"
    /\ fusion_strategy = "weighted"
    /\ Ids(bm25_results) \cap Ids(vector_results) # {}
    /\ Ids(bm25_results) \ Ids(vector_results) # {}
    /\ Ids(vector_results) \ Ids(bm25_results) # {}
    /\ Len(fused) = 3

\* C5 as stated: the output of every fusion strategy is in strictly
\* descending score order.
C5_StrictlyDescending ==
    pc = "fused" => StrictlyDescending(fused)

\* C5 amended: the output of every fusion strategy is in non-increasing score
\* order (entries of equal score may follow each other).
C5_NonIncreasing ==
    pc = "fused" => NonIncreasing(fused)

C5_Witness ==
    /\ pc = "fused"
    /\ fusion_strategy = "rrf"
    /\ Len(fused) = 3
    /\ fused[1][2] = fused[2][2]
    /\ RLess(fused[3][2], fused[2][2])

Pos(s, id) == CHOOSE i \in 1..Len(s) : s[i][1] = id
SameOrder(s, t, x, y) == (Pos(s, x) < Pos(s, y)) <=> (Pos(t, x) < Pos(t, y))
Matches(id) == category[id] = intent_to_category(intent)

\* C6 as stated: the category boost applied twice yields the same ordering
\* of the candidates as the category boost applied once.
C6_SameOrderingAsOnce ==
    pc = "boosted2" => IdList(fused) = IdList(boost_once)

\* C6 amended: after the second application, any two candidates that both
\* match the target category, or both do not, are in the same relative order
\* as after the first; only a matching candidate may overtake a non-matching
\* one.
C6_SameOrderingWithinGroups ==
    pc = "boosted2" =>
        /\ Ids(fused) = Ids(boost_once)
        /\ \A x, y \in Ids(fused) :
              (Matches(x) <=> Matches(y)) => SameOrder(fused, boost_once, x, y)
        /\ \A x, y \in Ids(fused) :
              (Matches(x) /\ Pos(boost_once, x) < Pos(boost_once, y))
                  => Pos(fused, x) < Pos(fused, y)

C6_Witness ==
    /\ pc = "boosted2"
    /\ Len(fused) = 3
    /\ IdList(fused) # IdList(boost_once)
    /\ \E x, y \in Ids(fused) : x # y /\ Matches(x) /\ Matches(y)

\* The indices of s that the Deduplicator keeps: a null source document, or
\* a source document that no earlier candidate has.
DedupKept(s, doc_of) ==
    {i \in 1..Len(s) :
        \/ doc_of[s[i][1]] = NULL
        \/ \A j \in 1..(i - 1) : doc_of[s[j][1]] # doc_of[s[i][1]]}

RECURSIVE SelectIndices(_, _, _)
SelectIndices(s, keep, i) ==
    IF i > Len(s) THEN <<>>
    ELSE (IF i \in keep THEN <<s[i]>> ELSE <<>>) \o SelectIndices(s, keep, i + 1)

\* C7: the Deduplicator's output is its input without every candidate whose
\* non-null source_document_id occurred at an earlier position: order and
\* scores of the kept candidates unchanged, null-source candidates all kept,
\* each non-null source document at most once.
C7_DedupKeepsFirstOccurrences ==
    pc = "deduplicated" =>
        /\ fused = SelectIndices(stage_input,
                        DedupKept(stage_input, source_document_id), 1)
        /\ \A i, j \in 1..Len(fused) :
              (/\ source_document_id[fused[i][1]] # NULL
               /\ source_document_id[fused[i][1]] = source_document_id[fused[j][1]])
                  => i = j
        /\ \A i \in 1..Len(stage_input) :
              source_document_id[stage_input[i][1]] = NULL
                  => stage_input[i] \in {fused[k] : k \in 1..Len(fused)}

C7_Witness ==
    /\ pc = "deduplicated"
    /\ Len(stage_input) = 3
    /\ Len(fused) = 2
    /\ source_document_id[stage_input[1][1]] = NULL
    /\ source_document_id[stage_input[2][1]] # NULL
    /\ source_document_id[stage_input[3][1]] = source_document_id[stage_input[2][1]]

EntriesOf(aid) ==
    IF aid \in DOMAIN search_feedback THEN FeedbackTotal(search_feedback[aid]) ELSE 0
InQualityRange(q) == RLeq(Rat(1, 2), q) /\ RLeq(q, Rat(3, 2))

\* C3: in every reachable state, after any interleaving of feedback
\* submissions and aggregator runs from the default 1.0, every article's
\* quality_score lies in [0.5, 1.5].
C3_QualityInRange ==
    \A a \in ArticleIds : InQualityRange(quality_score[a])

\* A score written by a run, with feedback submitted since.
C3_Witness ==
    /\ runs_since_feedback = 0
    /\ updated = 1
    /\ EntriesOf("a1") >= 4
    /\ RLess(quality_score["a1"], RInt(1))
    /\ quality_score["a1"] # article_quality(search_feedback["a1"])

RClamp(x, lo, hi) == RMax(lo, RMin(hi, x))
StatedQuality(h, n, i) ==
    LET T == h + n + i
        rate == RMax(RInt(0), Rat(2 * h - i, 2 * T))
        weight == RMin(Rat(3, 10), Rat(2 * T, 100))
    IN  RClamp(RAdd(RInt(1), RMul(RAdd(rate, Rat(-1, 2)), weight)),
               Rat(1, 2), Rat(3, 2))
Stats(h, n, i) == [r \in Ratings |->
    CASE r = "helpful" -> h [] r = "not_helpful" -> n [] r = "incorrect" -> i]

C10_SecondRunChangesNothing ==
    [][(runs_since_feedback >= 1 /\ runs_since_feedback' = runs_since_feedback + 1)
          => quality_score' = quality_score]_vars

C10_Witness ==
    /\ runs_since_feedback = 2
    /\ updated = 2
    /\ quality_score["a1"] # RInt(1)
    /\ quality_score["a2"] # RInt(1)

StatedWeights(i) ==
    IF i = "policy" THEN <<Rat(35, 100), Rat(65, 100)>>
    ELSE IF i = "procedure" THEN <<Rat(40, 100), Rat(60, 100)>>
    ELSE IF i = "reference" THEN <<Rat(20, 100), Rat(80, 100)>>
    ELSE <<Rat(30, 100), Rat(70, 100)>>

\* C11: adaptive_fusion(B, V, intent) is weighted_combination(B, V, w_B, w_V)
\* with the weights of the table for the intent, and (0.30, 0.70) for unknown
\* and for every unrecognized intent; both calls iterate the id set in the
\* same order, and the list the request holds is such a result.
C11_AdaptiveIsWeighted ==
    (pc = "fused" /\ fusion_strategy = "adaptive") =>
        /\ \A set_order \in SeqOrders(ArticleIds) :
              adaptive_fusion(bm25_results, vector_results, intent, set_order)
                = weighted_combination(bm25_results, vector_results,
                      StatedWeights(intent)[1], StatedWeights(intent)[2], set_order)
        /\ \E set_order \in SeqOrders(ArticleIds) :
              fused = weighted_combination(bm25_results, vector_results,
                          StatedWeights(intent)[1], StatedWeights(intent)[2], set_order)

C11_Witness ==
    /\ pc = "fused"
    /\ fusion_strategy = "adaptive"
    /\ intent = "smalltalk"
    /\ Len(bm25_results) = 2
    /\ Len(vector_results) = 2
    /\ Len(fused) >= 3
    /\ \E i \in 1..Len(fused) : RLess(RInt(0), fused[i][2])

\* C12: when the vector retriever returned [] (disabled at startup, disabled
\* by a failure, or no row), the fused ranking of every strategy holds exactly
\* the keyword result ids, each once, in non-increasing keyword score.
C12_KeywordOnlyRanking ==
    (pc = "boost" /\ vector_results = <<>>) =>
        /\ UniqueIds(fused)
        /\ Ids(fused) = Ids(bm25_results)
        /\ \A i, j \in 1..Len(fused) :
              i < j => RLeq(DictGet(bm25_results, fused[j][1], RInt(0)),
                            DictGet(bm25_results, fused[i][1], RInt(0)))

C12_Witness ==
    /\ pc = "done"
    /\ ~vector_search_enabled
    /\ vector_results = <<>>
    /\ fusion_strategy = "weighted"
    /\ Len(bm25_results) = 2
    /\ RLess(bm25_results[2][2], bm25_results[1][2])
    /\ Len(fused) = 2
    /\ Len(results) >= 1

\* C13: a failure of the store call of the keyword or of the vector
\* retriever does not leave the retriever: the step yields the empty list and
\* the request moves on, and fusion then ranks the other retriever's results.
C13_RetrieverFailureIsLocal ==
    /\ [][store_error' # store_error =>
            /\ pc = "bm25" => (pc' = "vector" /\ bm25_results' = <<>>)
            /\ pc = "vector" => (pc' = "fuse" /\ vector_results' = <<>>)]_vars
    /\ [](pc = "boost" =>
            /\ "bm25" \in store_error => Ids(fused) = Ids(vector_results)
            /\ "vector" \in store_error => Ids(fused) = Ids(bm25_results))

C13_Witness ==
    /\ pc = "done"
    /\ store_error = {"bm25"}
    /\ bm25_results = <<>>
    /\ Len(vector_results) = 2
    /\ Len(results) >= 1

\* C14: a failed write of the query log does not fail the request: the step
\* ends the request normally with the results it had, and query_id is absent
\* exactly when the write failed.
C14_LogFailureIsSwallowed ==
    [][pc = "log" /\ pc' # pc =>
          /\ pc' = "done"
          /\ results' = results
          /\ (query_log' = query_log) = (query_id' = None)]_vars

C14_Witness ==
    /\ pc = "done"
    /\ query_log = 0
    /\ query_id = None
    /\ Len(results) >= 1

\* C15: the number of results of a response exceeds neither 50 nor the
\* top_k of the request, whatever integer top_k is (a top_k of zero or less
\* admits no result).
C15_ResultsWithinTopK ==
    pc \in {"log", "done"} =>
        /\ limit <= MAX_TOP_K
        /\ Len(results) <= MAX_TOP_K
        /\ Len(results) <= (IF top_k < 0 THEN 0 ELSE top_k)

\* C16: on the ML path and on the keyword path the classifier returns a label
\* in {policy, procedure, reference, unknown} and a confidence in [0, 1].
C16_LabelAndConfidenceBounds ==
    pc = "detected" =>
        /\ intent \in {"policy", "procedure", "reference", "unknown"}
        /\ RLeq(RInt(0), intent_conf)
        /\ RLeq(intent_conf, RInt(1))

C16_Witness ==
    /\ pc = "detected"
    /\ MODEL = "None"
    /\ detect_input.hits["policy"].priority = 2
    /\ detect_input.hits["policy"].whole = 2
    /\ intent = "policy"
    /\ intent_conf = RInt(1)

\* C17: with a fixed model file, detect returns the same (label, confidence)
\* for the same query to every caller, also to a thread that calls while
\* another thread is still loading the model.
C17_SameAnswerForSameQuery ==
    \A t, u \in Threads :
        (thread_pc[t] = "done" /\ thread_pc[u] = "done") =>
            thread_out[t] = thread_out[u]

ValidKey(req) == req.auth = <<"Bearer", API_KEY>>
MalformedSearch(body) ==
    \/ body.kind \in {"missing", "unparsable"}
    \/ /\ body.kind = "object"
       /\ \/ body.query \in {"list", "null"}
          \/ body.query = "str" /\ body.top_k \in {"str", "float", "null"}
StatedSearchError(body) ==
    IF body.kind \in {"missing", "unparsable"} THEN "Request body required"
    ELSE IF body.query \in {"list", "null"} THEN "Query must be a string"
    ELSE "top_k must be an integer"

\* C18: POST /search answers a malformed request (missing or unparsable
\* body, non-string query, non-integer top_k) with 400 and the stated
\* message, and does not call the engine.
C18_MalformedSearchIs400 ==
    [][(/\ request'.endpoint = "search"
        /\ ValidKey(request')
        /\ MalformedSearch(request'.body)) =>
            /\ http_status' = 400
            /\ http_error' = StatedSearchError(request'.body)
            /\ engine_calls' = engine_calls]_vars

\* C19: POST /feedback rejects a result_rank that is not a positive integer
\* with 400 'result_rank must be a positive integer' and an unknown rating
\* with 400, writing no entry; a valid request writes exactly one entry and
\* answers 200 (when the store accepts the insert).
C19_FeedbackOnlyForValidInput ==
    [][(/\ request'.endpoint = "feedback"
        /\ ValidKey(request')
        /\ request'.body.kind = "object"
        /\ request'.body.query_id # "absent"
        /\ request'.body.result_rank # "absent"
        /\ request'.body.rating # "absent") =>
            LET body == request'.body
                valid_rating == body.rating \in {"helpful", "not_helpful", "incorrect"}
            IN  /\ body.result_rank # "positive" =>
                      /\ http_status' = 400
                      /\ http_error' = "result_rank must be a positive integer"
                      /\ search_feedback' = search_feedback
                /\ ~valid_rating =>
                      /\ http_status' = 400
                      /\ search_feedback' = search_feedback
                /\ (body.result_rank = "positive" /\ valid_rating
                        /\ store_error' = {}) =>
                      /\ http_status' = 200
                      /\ TotalEntries(search_feedback')
                            = TotalEntries(search_feedback) + 1]_vars

\* C20: when the environment is production as RuntimeConfig.is_production
\* reads it (case-insensitively), a request to /search, /feedback or /stats
\* without a Bearer header is answered 401, one with a wrong token 403,
\* neither reaches the engine, and only the configured key is served.
C20_ProductionRequiresKey ==
    [][is_production(request'.environment) =>
          LET h == request'.auth
              bearer == Len(h) >= 2 /\ h[1] = "Bearer"
          IN  /\ ~bearer => (http_status' = 401 /\ engine_calls' = engine_calls)
              /\ (bearer /\ h[2] # API_KEY) =>
                    (http_status' = 403 /\ engine_calls' = engine_calls)
              /\ engine_calls' # engine_calls => ValidKey(request')]_vars

\* C21: a request whose deadline passed while a store or model call was
\* pending ends with a timeout error: it never returns a result list.
C21_NoResultsAfterDeadline ==
    deadline_expired => pc # "done"

\* C22: an aggregator run, a category boost and a quality multiplier leave
\* every field of every article other than quality_score unchanged, and the
\* two stages write nothing to the store at all.
C22_OnlyQualityScoreIsWritten ==
    [][/\ category' = category
       /\ source_document_id' = source_document_id
       /\ is_active' = is_active
       /\ pc' # pc => /\ quality_score' = quality_score
                      /\ search_feedback' = search_feedback]_vars

C22_Witness ==
    /\ pc = "dedup"
    /\ updated = 1
    /\ quality_score["a1"] # RInt(1)
    /\ ~is_active["a1"]
    /\ category["a1"] = "POLICY"
    /\ Len(fused) = 2

\* C23: the category boost is applied if and only if the intent is policy,
\* procedure or reference and its confidence is at least 0.3; when applied,
\* the scores of exactly the candidates among the first 30 whose category is
\* the one of the intent are multiplied by 1.20, every other score is kept,
\* and the list is sorted descending; otherwise the list is left as it is.
StatedCategory(i) ==
    CASE i = "policy"    -> "POLICY"
      [] i = "procedure" -> "PROCEDURE"
      [] i = "reference" -> "REFERENCE"
      [] OTHER           -> "none"

C23_BoostGateAndEffect ==
    [][(pc = "boost" /\ pc' # pc) =>
          LET applies == /\ intent \in {"policy", "procedure", "reference"}
                         /\ RLeq(Rat(3, 10), intent_conf)
              stated(i) ==
                  IF i <= 30 /\ category[fused[i][1]] = StatedCategory(intent)
                  THEN RMul(fused[i][2], Rat(12, 10))
                  ELSE fused[i][2]
          IN  /\ ~applies => fused' = fused
              /\ applies =>
                    /\ Len(fused') = Len(fused)
                    /\ \A i \in 1..Len(fused) :
                          \E j \in 1..Len(fused') :
                             fused'[j] = <<fused[i][1], stated(i)>>
                    /\ NonIncreasing(fused')]_vars

\* A boost was applied to a list of 32 candidates with matching articles
\* on both sides of position 30, and it changed the order.
C23_Witness ==
    /\ pc = "quality"
    /\ intent = "procedure"
    /\ intent_conf = Rat(3, 10)
    /\ Len(fused) = TOP_N + 2
    /\ category[TOP_N] = "PROCEDURE"
    /\ category[TOP_N + 1] = "PROCEDURE"
    /\ fused[1][1] = TOP_N
    /\ fused[TOP_N + 1][1] = TOP_N + 1

\* C24: the stages of a request run in the order fuse, category boost,
\* quality multiplier, deduplicate, materialize, (rerank), log: no stage
\* starts before the one stated before it has finished, the scores are
\* changed by fusion, boost and quality multiplier only (deduplication and
\* what follows only drop or copy entries), and the query log is written
\* after the result list, which does not change any more.
StatedOrder ==
    {<<"fuse", "boost">>, <<"boost", "quality">>, <<"quality", "dedup">>,
     <<"dedup", "fetch">>, <<"fetch", "rerank">>, <<"fetch", "log">>,
     <<"rerank", "log">>, <<"log", "done">>}

C24_StagesInOrder ==
    [][/\ (pc' # pc /\ pc' # "failed" /\ pc \notin {"idle", "bm25", "vector"}) =>
            /\ <<pc, pc'>> \in StatedOrder
            /\ (pc' = "rerank") = (pc = "fetch" /\ fusion_strategy = "rerank")
       /\ (pc \in {"dedup", "fetch", "rerank", "log", "done"}) =>
            \A j \in 1..Len(fused') : \E k \in 1..Len(fused) : fused'[j] = fused[k]
       /\ results' # results => pc \in {"fetch", "rerank"}
       /\ query_log' # query_log => (pc = "log" /\ results' = results)]_vars

C24_Witness ==
    /\ pc = "done"
    /\ fusion_strategy = "rerank"
    /\ RLeq(BOOST_MIN_CONFIDENCE, intent_conf)
    /\ query_log = 1
    /\ Len(results) = 2
    /\ Len(fused) = 3

\* The stated blend of candidate k of a pool: 0.85 * minmax(fusion) +
\* 0.15 * minmax(rerank), the range of equal values taken as 1.0.
StatedMinMax(values, k) ==
    LET lo == CHOOSE v \in {values[i] : i \in 1..Len(values)} :
                  \A i \in 1..Len(values) : RLeq(v, values[i])
        hi == CHOOSE v \in {values[i] : i \in 1..Len(values)} :
                  \A i \in 1..Len(values) : RLeq(values[i], v)
        range == IF hi = lo THEN RInt(1) ELSE RAdd(hi, RMul(RInt(-1), lo))
    IN  RDiv(RAdd(values[k], RMul(RInt(-1), lo)), range)

StatedBlend(fusion_scores, rerank_scores, k) ==
    RAdd(RMul(Rat(85, 100), StatedMinMax(fusion_scores, k)),
         RMul(Rat(15, 100), StatedMinMax(rerank_scores, k)))

\* C25: in every response the results are in non-increasing order of their
\* reported fusion_score, and the reported score is the one after the last
\* adjustment: the score of the adjusted candidate list, or for a rerank
\* pool of two or more candidates the blend computed from it.
C25_ResultsOrderedByReportedScore ==
    pc \in {"log", "done"} =>
       LET pool == Take(fused, IF limit * 2 < 20 THEN limit * 2 ELSE 20)
           blended == fusion_strategy = "rerank" /\ Len(pool) >= 2
       IN  /\ \A i \in 1..(Len(results) - 1) :
                 RLeq(results[i + 1].fusion_score, results[i].fusion_score)
           /\ ~blended =>
                 \A i \in 1..Len(results) :
                    \E k \in 1..Len(fused) :
                       fused[k] = <<results[i].article_id, results[i].fusion_score>>
           /\ blended =>
                 \E raw \in [1..Len(pool) -> RawScores] :
                    \A i \in 1..Len(results) :
                       \E k \in 1..Len(pool) :
                          /\ pool[k][1] = results[i].article_id
                          /\ results[i].rerank_score = raw[k]
                          /\ results[i].fusion_score
                                = StatedBlend(Scores(pool), raw, k)

\* A reranked response whose order differs from the order of the pool.
C25_Witness ==
    /\ pc = "done"
    /\ fusion_strategy = "rerank"
    /\ Len(results) = 2
    /\ Len(fused) = 3
    /\ results[1].article_id # fused[1][1]
    /\ RLess(results[2].fusion_score, results[1].fusion_score)

\* C26: for a rerank pool of two or more candidates the response is the
\* pool sorted by blended score descending and truncated to top_k (to
\* nothing for a top_k below 0): each result carries the raw score of the
\* cross-encoder in rerank_score and 0.85 * minmax(fusion) + 0.15 *
\* minmax(rerank) in fusion_score, which lies in [0, 1], and no candidate
\* left out has a higher blended score than a result.
C26_RerankBlend ==
    LET pool == PySlice(fused, IF limit * 2 < 20 THEN limit * 2 ELSE 20)
        stated_len == IF limit < 0 THEN 0
                      ELSE IF limit < Len(pool) THEN limit ELSE Len(pool)
    IN  (pc = "log" /\ fusion_strategy = "rerank" /\ Len(pool) >= 2) =>
           \E raw \in [1..Len(pool) -> RawScores] :
           \E place \in [1..Len(results) -> 1..Len(pool)] :
              /\ Len(results) = stated_len
              /\ \A i, j \in 1..Len(results) : place[i] = place[j] => i = j
              /\ \A i \in 1..Len(results) :
                    /\ results[i].article_id = pool[place[i]][1]
                    /\ results[i].rerank_score = raw[place[i]]
                    /\ results[i].fusion_score
                          = StatedBlend(Scores(pool), raw, place[i])
                    /\ RLeq(RInt(0), results[i].fusion_score)
                    /\ RLeq(results[i].fusion_score, RInt(1))
                    /\ i < Len(results) =>
                          RLeq(results[i + 1].fusion_score, results[i].fusion_score)
                    /\ \A k \in 1..Len(pool) :
                          (\A j \in 1..Len(results) : place[j] # k) =>
                             RLeq(StatedBlend(Scores(pool), raw, k),
                                  results[i].fusion_score)

\* C27: under any interleaving of concurrent requests, every fetchall of a
\* request returns the rows of the query that request last executed: the
\* keyword and the vector results given to fusion are its own.
C27_RowsOfOwnQuery ==
    \A t \in Threads :
       \A k \in 1..Len(worker_rows[t]) :
          worker_rows[t][k] = <<t, StoreQueries[k]>>

\* C28: _get_engine constructs at most one HybridSearchEngine, and every
\* request is served by that instance.
C28_OneEngine ==
    /\ engines_built <= 1
    /\ \A t \in Threads : worker_engine[t] \in {None, <<1>>}

\* C29: once vector_search_enabled is false it stays false; a request that
\* reaches the vector retriever with the flag false sends no vector query
\* and gets no vector rows, and while the flag is false every response is
\* keyword-only: each result is a keyword hit with vector score 0.
C29_VectorDisabledForGood ==
    /\ [][~vector_search_enabled => ~vector_search_enabled']_vars
    /\ [][(pc = "vector" /\ pc' # pc /\ ~vector_search_enabled) =>
             (~vector_queried' /\ vector_results' = <<>>)]_vars
    /\ []((~vector_search_enabled /\ pc \in {"log", "done"}) =>
             \A i \in 1..Len(results) :
                /\ results[i].article_id \in Ids(bm25_results)
                /\ results[i].vector_score = RInt(0))

\* The second request of an engine that has lost or never had the vector
\* retriever has returned two keyword results without a vector query.
C29_Witness ==
    /\ engine_calls = 1
    /\ pc = "done"
    /\ ~vector_search_enabled
    /\ ~vector_queried
    /\ store_error = {}
    /\ query_log = 2
    /\ Len(results) = 2

\* C30: for every feedback table with T >= 3 entries of an article the
\* value the aggregator writes lies in [0.85, 1.15] and is the value before
\* the clamp to [0.5, 1.5], which therefore changes nothing: feedback moves
\* the multiplier by at most 0.15.
C30_QualityWithinFifteenPercent ==
    runs_since_feedback >= 1 =>
        LET s == search_feedback["a1"]
            q == quality_score["a1"]
            T == FeedbackTotal(s)
            rate == RMax(RInt(0), Rat(2 * s["helpful"] - s["incorrect"], 2 * T))
            unclamped == RAdd(RInt(1), RMul(RAdd(rate, Rat(-1, 2)),
                                           RMin(Rat(3, 10), Rat(2 * T, 100))))
        IN  T >= 3 =>
               /\ RLeq(Rat(85, 100), q)
               /\ RLeq(q, Rat(115, 100))
               /\ q = unclamped

\* The largest move is reached: 50 entries, all helpful, give exactly 1.15.
C30_Witness ==
    /\ runs_since_feedback = 1
    /\ search_feedback["a1"]["helpful"] = 50
    /\ FeedbackTotal(search_feedback["a1"]) = 50
    /\ quality_score["a1"] = Rat(115, 100)

====
